---- MODULE Spec2Model ----
(***************************************************************************)
(* A model of the multi-channel signed distance field generator of mtsdf   *)
(* (src/src/sdf): the outline Builder, Contour::winding, the edge          *)
(* colouring Shape::color_edges with its seed and colour helpers, and the  *)
(* distance evaluation: Segment::signed_distance for lines, the           *)
(* PerpEdgeSelector and MTEdgeSelector, one_shot_distance and the          *)
(* rasterizer ColouredShape::generate_mtsdf.                               *)
(*                                                                         *)
(* Numbers.  Outline coordinates are f32 in the source.  The model keeps   *)
(* them as integers that are multiples of 216 = 8 * 27, so that every      *)
(* sample at t = 1/2, 1/3 and 2/3 and every control point produced by      *)
(* split_in_three is again an integer and the arithmetic of the model is   *)
(* the exact arithmetic of the source on these values.  Where the f32      *)
(* rounding itself matters (symmetrical_trichotomy, the sign of a zero in  *)
(* Contour::winding) it is modelled bit for bit.  The distance evaluation  *)
(* and the rasterizer work on f32 values throughout: an f32 is a record    *)
(* [k, s, m, e] of value (-1)^s * m * 2^e with a 24 bit significand m, and *)
(* every operation rounds to nearest, ties to even, as the hardware does.  *)
(***************************************************************************)
EXTENDS Integers, Sequences, FiniteSets, TLC

VARIABLES
    outline,      \* the glyph's outline commands still to be replayed (Face::outline_glyph)
    contours,     \* Builder.contours
    current,      \* Builder.current : Option<Contour>
    cur_pos,      \* Builder.cur_pos
    coloured,     \* the ColouredShape returned by color_edges (Option)
    corners,      \* the value of the corner cache of color_edges for each contour
    wind,         \* the last call of Contour::winding: contour index and result
    tri,          \* the balance loop over symmetrical_trichotomy: n, position, total
    sel,          \* a PerpEdgeSelector
    call,         \* the last selector call and its arguments
    query,        \* a call of Segment::signed_distance: segment, point and result
    shot,         \* the loops of one_shot_distance: shape, point and position
    ras,          \* the loops of ColouredShape::generate_mtsdf and the image written
    mt,           \* an MTEdgeSelector
    col           \* the running colour and seed of color_edges

vars ==
    <<outline, contours, current, cur_pos, coloured, corners, wind, tri, sel, call,
      query, shot, ras, mt, col>>

\* the variables of the distance evaluation, the rasterizer and the colour state
more == <<query, shot, ras, mt, col>>

(***************************************************************************)
(* Bounds of the model.                                                    *)
(***************************************************************************)
MaxEdges == 4      \* edges of an exhaustively enumerated polyline outline
MaxSeed == 23      \* seeds 0 .. MaxSeed: every initial colour and three seed bits
MaxN == 100        \* symmetrical_trichotomy is summed for n in 2 .. MaxN
MaxDist == 2       \* candidate distances range over -MaxDist .. MaxDist
MaxDot == 2        \* candidate dots range over 0, 1/4, .. MaxDot/4
MaxCoord == 7      \* the lines and query points of signed_distance lie in 0 .. MaxCoord

(***************************************************************************)
(* Vec2 (mod.rs).  A vector is a pair <<x, y>>.                            *)
(***************************************************************************)
VSub(a, b) == <<a[1] - b[1], a[2] - b[2]>>

dot(a, b) == a[1] * b[1] + a[2] * b[2]

cross(a, b) == a[1] * b[2] - a[2] * b[1]

length_sqr(a) == a[1] * a[1] + a[2] * a[2]

Abs(x) == IF x < 0 THEN -x ELSE x

\* lerp(a, b, t) = a + (b - a)*t with t = tn/td; every use in the model is exact
\* (the difference times tn is a multiple of td).
lerp(a, b, tn, td) ==
    <<a[1] + ((b[1] - a[1]) * tn) \div td, a[2] + ((b[2] - a[2]) * tn) \div td>>

(***************************************************************************)
(* Segment (segment.rs).  A segment is a record [kind, p] with p the       *)
(* sequence of its control points: 2 for a Line, 3 for a Quad, 4 for a     *)
(* Cubic.                                                                  *)
(***************************************************************************)
Line(a, b) == [kind |-> "Line", p |-> <<a, b>>]

Quad(a, b, c) == [kind |-> "Quad", p |-> <<a, b, c>>]

Cubic(a, b, c, d) == [kind |-> "Cubic", p |-> <<a, b, c, d>>]

colored(s, color) == [segment |-> s, color |-> color]

\* Segment::sample at t = tn/td (De Casteljau, as the source nests the lerps).
sample(s, tn, td) ==
    LET q == s.p IN
    CASE s.kind = "Line" -> lerp(q[1], q[2], tn, td)
      [] s.kind = "Quad" -> lerp(lerp(q[1], q[2], tn, td), lerp(q[2], q[3], tn, td), tn, td)
      [] s.kind = "Cubic" ->
            LET p12 == lerp(q[2], q[3], tn, td) IN
            lerp(lerp(lerp(q[1], q[2], tn, td), p12, tn, td),
                 lerp(p12, lerp(q[3], q[4], tn, td), tn, td), tn, td)

IsZero(v) == v[1] = 0 /\ v[2] = 0

\* Segment::direction at t = 0 or t = 1, the only parameters the callers pass.
direction(s, t) ==
    LET q == s.p IN
    CASE s.kind = "Line" -> VSub(q[2], q[1])
      [] s.kind = "Quad" ->
            LET tangent == lerp(VSub(q[2], q[1]), VSub(q[3], q[2]), t, 1) IN
            IF IsZero(tangent) THEN VSub(q[3], q[1]) ELSE tangent
      [] s.kind = "Cubic" ->
            LET tangent == lerp(lerp(VSub(q[2], q[1]), VSub(q[3], q[2]), t, 1),
                                lerp(VSub(q[3], q[2]), VSub(q[4], q[3]), t, 1), t, 1) IN
            IF IsZero(tangent)
            THEN (IF t = 0 THEN VSub(q[3], q[1])
                  ELSE IF t = 1 THEN VSub(q[4], q[2]) ELSE tangent)
            ELSE tangent

\* A split that keeps the control points of the whole segment in its middle
\* part instead of recomputing them.
split_in_three_kept(s) ==
    LET q == s.p
        third == sample(s, 1, 3)
        two == sample(s, 2, 3)
    IN
    CASE s.kind = "Line" ->
            <<Line(q[1], third), Line(third, two), Line(two, q[2])>>
      [] s.kind = "Quad" ->
            <<Quad(q[1], lerp(q[1], q[2], 1, 3), third),
              Quad(third, q[2], two),
              Quad(two, lerp(q[2], q[3], 2, 3), q[3])>>
      [] s.kind = "Cubic" ->
            <<Cubic(q[1], lerp(q[1], q[2], 1, 3),
                    lerp(lerp(q[1], q[2], 1, 3), lerp(q[2], q[3], 1, 3), 1, 3), third),
              Cubic(third, q[2], q[3], two),
              Cubic(two, lerp(lerp(q[2], q[3], 2, 3), lerp(q[3], q[4], 2, 3), 2, 3),
                    lerp(q[3], q[4], 2, 3), q[4])>>

\* Segment::split_in_three: three segments of the same kind.
split_in_three(s) ==
    LET q == s.p
        third == sample(s, 1, 3)
        two == sample(s, 2, 3)
    IN
    CASE s.kind = "Line" ->
            <<Line(q[1], third), Line(third, two), Line(two, q[2])>>
      [] s.kind = "Quad" ->
            <<Quad(q[1], lerp(q[1], q[2], 1, 3), third),
              Quad(third, lerp(lerp(q[1], q[2], 5, 9), lerp(q[2], q[3], 4, 9), 1, 2), two),
              Quad(two, lerp(q[2], q[3], 2, 3), q[3])>>
      [] s.kind = "Cubic" ->
            LET a == q[1]
                b == q[2]
                c == q[3]
                d == q[4]
            IN
            <<Cubic(a,
                    IF a = b THEN a ELSE lerp(a, b, 1, 3),
                    lerp(lerp(a, b, 1, 3), lerp(b, c, 1, 3), 1, 3),
                    third),
              Cubic(third,
                    lerp(lerp(lerp(a, b, 1, 3), lerp(b, c, 1, 3), 1, 3),
                         lerp(lerp(b, c, 1, 3), lerp(c, d, 1, 3), 1, 3), 2, 3),
                    lerp(lerp(lerp(a, b, 2, 3), lerp(b, c, 2, 3), 2, 3),
                         lerp(lerp(b, c, 2, 3), lerp(c, d, 2, 3), 2, 3), 1, 3),
                    two),
              Cubic(two,
                    lerp(lerp(b, c, 2, 3), lerp(c, d, 2, 3), 2, 3),
                    IF c = d THEN d ELSE lerp(c, d, 2, 3),
                    d)>>

(***************************************************************************)
(* Color (mod.rs): a bit mask over RED = 1, GREEN = 2, BLUE = 4.           *)
(***************************************************************************)
BLACK == 0
RED == 1
GREEN == 2
YELLOW == 3
BLUE == 4
MAGENTA == 5
CYAN == 6
WHITE == 7

RECURSIVE BitAnd(_, _)
BitAnd(a, b) ==
    IF a = 0 \/ b = 0 THEN 0
    ELSE (a % 2) * (b % 2) + 2 * BitAnd(a \div 2, b \div 2)

RECURSIVE BitOr(_, _)
BitOr(a, b) ==
    IF a = 0 THEN b
    ELSE IF b = 0 THEN a
    ELSE (IF a % 2 = 1 \/ b % 2 = 1 THEN 1 ELSE 0) + 2 * BitOr(a \div 2, b \div 2)

BitXor(a, b) == BitOr(a, b) - BitAnd(a, b)

(***************************************************************************)
(* The seed and the running colour (shape.rs).  A function that takes      *)
(* &mut arguments returns the record of their new values.                  *)
(***************************************************************************)
extract_seed_bit(seed) == [v |-> seed % 2, seed |-> seed \div 2]

extract_seed_mod3(seed) == [v |-> seed % 3, seed |-> seed \div 3]

COLORS == <<CYAN, MAGENTA, YELLOW>>

init_color(seed) ==
    LET e == extract_seed_mod3(seed) IN
    [color |-> COLORS[e.v + 1], seed |-> e.seed]

\* variant: the shifted bits are not masked with WHITE
switch_color_unmasked(color, seed) ==
    LET e == extract_seed_bit(seed)
        shifted == color * 2^(1 + e.v)
    IN  [color |-> BitOr(shifted, shifted \div 8) % 256, seed |-> e.seed]

switch_color(color, seed) ==
    LET e == extract_seed_bit(seed)
        shifted == color * 2^(1 + e.v)
    IN  [color |-> BitAnd(BitOr(shifted, shifted \div 8), WHITE), seed |-> e.seed]

\* variant: the switch that ignores the banned colour
switch_color_unconstrained(color, seed, banned) == switch_color(color, seed)

switch_color_constrained(color, seed, banned) ==
    LET combined == BitAnd(color, banned) IN
    IF combined = RED \/ combined = GREEN \/ combined = BLUE
    THEN [color |-> BitXor(combined, WHITE), seed |-> seed]
    ELSE switch_color(color, seed)

(***************************************************************************)
(* symmetrical_trichotomy (shape.rs), in f32 as the source computes it:    *)
(*   (3.0 + 2.875*position/(n - 1.0) - 1.4375 + 0.5) as i32 - 3            *)
(* 2.875*position = 23*position/8 is exact.  The quotient is rounded to    *)
(* the nearest f32 (24 significant bits, ties to even) and kept in units   *)
(* of 2^-29; the sums are kept in units of 2^-22 and rounded to f32 where  *)
(* they reach 4.0.  The model covers 1 <= n - 1 <= 184, where a non-zero   *)
(* quotient is at least 2^-6.                                              *)
(***************************************************************************)
RECURSIVE LongDiv(_, _, _, _)
\* `bits` further binary digits of acc + r/dn: <<quotient, remainder>>
LongDiv(acc, r, dn, bits) ==
    IF bits = 0 THEN <<acc, r>>
    ELSE IF 2 * r >= dn THEN LongDiv(2 * acc + 1, 2 * r - dn, dn, bits - 1)
    ELSE LongDiv(2 * acc, 2 * r, dn, bits - 1)

RECURSIVE BitLen(_)
BitLen(x) == IF x = 0 THEN 0 ELSE 1 + BitLen(x \div 2)

\* round hi + (lo + sticky)/2^drop to the nearest integer, ties to even
RoundEven(hi, lo, half, sticky) ==
    IF lo > half \/ (lo = half /\ sticky) THEN hi + 1
    ELSE IF lo = half /\ hi % 2 = 1 THEN hi + 1
    ELSE hi

\* the f32 nearest to nm/dn, in units of 2^-29  (nm/dn = 0 or 2^-6 <= nm/dn < 4)
F32Div(nm, dn) ==
    LET qr == LongDiv(nm \div dn, nm % dn, dn, 29)
        q == qr[1]
        drop == BitLen(q) - 24
    IN  IF nm = 0 THEN 0
        ELSE IF drop = 0
        THEN RoundEven(q, 2 * qr[2], dn, FALSE)
        ELSE RoundEven(q \div 2^drop, q % 2^drop, 2^(drop - 1), qr[2] > 0) * 2^drop

\* the f32 nearest to hi + lo/128 in units of 2^-22, for a value below 8.0
F32Round22(hi, lo) ==
    IF hi < 2^24 THEN RoundEven(hi, lo, 64, FALSE)
    ELSE 2 * RoundEven(hi \div 2, (hi % 2) * 128 + lo, 128, FALSE)

symmetrical_trichotomy(position, n) ==
    LET q == F32Div(23 * position, 8 * (n - 1))                \* 2.875*position/(n - 1)
        s1 == F32Round22(3 * 2^22 + q \div 128, q % 128)       \* 3.0 + ...
        s2 == F32Round22(s1 - 6029312, 0)                      \* ... - 1.4375
        s3 == F32Round22(s2 + 2^21, 0)                         \* ... + 0.5
    IN  s3 \div 2^22 - 3                                       \* as i32 - 3

(***************************************************************************)
(* f32 arithmetic (IEEE 754 binary32, round to nearest, ties to even), as  *)
(* the operators +, -, *, / and the methods sqrt, abs, signum of the       *)
(* source compute it.  A finite value is [k |-> "num", s, m, e] and stands *)
(* for (-1)^s * m * 2^e with m = 0 (a signed zero, e = 0) or               *)
(* 2^23 <= m < 2^24; k is "inf" for an infinity and "nan" for a NaN.  The  *)
(* exponent is not bounded: the values of the model stay far from the      *)
(* overflow and underflow thresholds of f32.                               *)
(***************************************************************************)
P23 == 8388608

P24 == 16777216

FNum(s, m, e) == [k |-> "num", s |-> s, m |-> m, e |-> e]

FZero(s) == FNum(s, 0, 0)

FInf(s) == [k |-> "inf", s |-> s, m |-> 0, e |-> 0]

FNaN == [k |-> "nan", s |-> 0, m |-> 0, e |-> 0]

IsNaN(a) == a.k = "nan"

IsFZero(a) == a.k = "num" /\ a.m = 0

\* the f32 nearest to (-1)^s * (m + f) * 2^e, where 0 <= m < 2^31 and 0 <= f < 1
\* with f > 0 exactly when st; with st, m has at least 26 bits
FRound(s, m, e, st) ==
    LET len == BitLen(m)
        sh == len - 24
        q == RoundEven(m \div 2^sh, m % 2^sh, 2^(sh - 1), st)
    IN  IF m = 0 THEN FZero(s)
        ELSE IF sh <= 0 THEN FNum(s, m * 2^(-sh), e + sh)
        ELSE IF q = P24 THEN FNum(s, P23, e + sh + 1)
        ELSE FNum(s, q, e + sh)

\* an integer of the source (`as f32`), |n| < 2^31
FInt(n) == FRound(IF n < 0 THEN 1 ELSE 0, Abs(n), 0, FALSE)

\* n / 2^d, exactly representable
FDyadic(n, d) == LET x == FInt(n) IN IF x.m = 0 THEN x ELSE FNum(x.s, x.m, x.e - d)

fneg(a) == [a EXCEPT !.s = 1 - @]

fabs(a) == [a EXCEPT !.s = 0]

\* |a| < |b| for finite a and b
MagLt(a, b) ==
    IF a.m = 0 THEN b.m # 0
    ELSE b.m # 0 /\ (a.e < b.e \/ (a.e = b.e /\ a.m < b.m))

\* a < b; false when either is NaN
flt(a, b) ==
    IF IsNaN(a) \/ IsNaN(b) THEN FALSE
    ELSE IF a.k = "inf" THEN a.s = 1 /\ ~(b.k = "inf" /\ b.s = 1)
    ELSE IF b.k = "inf" THEN b.s = 0
    ELSE IF a.m = 0 /\ b.m = 0 THEN FALSE
    ELSE IF a.s # b.s THEN a.s = 1
    ELSE IF a.s = 0 THEN MagLt(a, b) ELSE MagLt(b, a)

feq(a, b) ==
    IF IsNaN(a) \/ IsNaN(b) THEN FALSE
    ELSE IF IsFZero(a) /\ IsFZero(b) THEN TRUE
    ELSE a = b

fle(a, b) == flt(a, b) \/ feq(a, b)

\* m / 2^n truncated, with the sticky flag of the bits dropped
ShiftR(m, n) ==
    IF n > 30 THEN <<0, m # 0>> ELSE <<m \div 2^n, m % 2^n # 0>>

\* a + b for finite non-zero a, b with |a| >= |b|
AddOrdered(a, b) ==
    LET big == a.m * 64
        sm == ShiftR(b.m * 64, a.e - b.e)
    IN  IF a.s = b.s THEN FRound(a.s, big + sm[1], a.e - 6, sm[2])
        ELSE IF big = sm[1] /\ ~sm[2] THEN FZero(0)
        ELSE IF sm[2] THEN FRound(a.s, big - sm[1] - 1, a.e - 6, TRUE)
        ELSE FRound(a.s, big - sm[1], a.e - 6, FALSE)

fadd(a, b) ==
    IF IsNaN(a) \/ IsNaN(b) THEN FNaN
    ELSE IF a.k = "inf" THEN (IF b.k = "inf" /\ b.s # a.s THEN FNaN ELSE a)
    ELSE IF b.k = "inf" THEN b
    ELSE IF a.m = 0 /\ b.m = 0 THEN FZero(IF a.s = 1 /\ b.s = 1 THEN 1 ELSE 0)
    ELSE IF a.m = 0 THEN b
    ELSE IF b.m = 0 THEN a
    ELSE IF MagLt(a, b) THEN AddOrdered(b, a) ELSE AddOrdered(a, b)

fsub(a, b) == fadd(a, fneg(b))

\* the 48 bit product of two 24 bit mantissas as <<high 24 bits, low 24 bits>>
MulWide(x, y) ==
    LET x1 == x \div 4096
        x0 == x % 4096
        y1 == y \div 4096
        y0 == y % 4096
        mid == x1 * y0 + x0 * y1
        low == x0 * y0 + (mid % 4096) * 4096
    IN  <<x1 * y1 + mid \div 4096 + low \div P24, low % P24>>

fmul(a, b) ==
    IF IsNaN(a) \/ IsNaN(b) THEN FNaN
    ELSE IF a.k = "inf" \/ b.k = "inf"
    THEN (IF IsFZero(a) \/ IsFZero(b) THEN FNaN ELSE FInf((a.s + b.s) % 2))
    ELSE IF a.m = 0 \/ b.m = 0 THEN FZero((a.s + b.s) % 2)
    ELSE LET w == MulWide(a.m, b.m) IN
         FRound((a.s + b.s) % 2, w[1] * 64 + w[2] \div 262144, a.e + b.e + 18,
                w[2] % 262144 # 0)

fdiv(a, b) ==
    IF IsNaN(a) \/ IsNaN(b) THEN FNaN
    ELSE IF a.k = "inf" THEN (IF b.k = "inf" THEN FNaN ELSE FInf((a.s + b.s) % 2))
    ELSE IF b.k = "inf" THEN FZero((a.s + b.s) % 2)
    ELSE IF b.m = 0 THEN (IF a.m = 0 THEN FNaN ELSE FInf((a.s + b.s) % 2))
    ELSE IF a.m = 0 THEN FZero((a.s + b.s) % 2)
    ELSE LET qr == LongDiv(a.m \div b.m, a.m % b.m, b.m, 27) IN
         FRound((a.s + b.s) % 2, qr[1], a.e - b.e - 27, qr[2] # 0)

RECURSIVE SqrtBits(_, _, _, _)
\* digit by digit square root: `pairs` further bits of the root of the radicand
\* whose remaining bit pairs are the base 4 digits of `rad` (then zeros)
SqrtBits(root, rem, rad, pairs) ==
    IF pairs = 0 THEN <<root, rem>>
    ELSE LET r == rem * 4 + rad[1]
             trial == root * 4 + 1
         IN  IF r >= trial
             THEN SqrtBits(root * 2 + 1, r - trial, Tail(rad) \o <<0>>, pairs - 1)
             ELSE SqrtBits(root * 2, r, Tail(rad) \o <<0>>, pairs - 1)

\* the 13 base 4 digits of x < 2^26, most significant first
Base4(x) == [i \in 1..13 |-> (x \div 4^(13 - i)) % 4]

fsqrt(a) ==
    IF IsNaN(a) THEN FNaN
    ELSE IF a.k = "num" /\ a.m = 0 THEN a
    ELSE IF a.s = 1 THEN FNaN
    ELSE IF a.k = "inf" THEN a
    ELSE LET odd == a.e % 2 # 0
             x == IF odd THEN a.m * 2 ELSE a.m
             e == IF odd THEN a.e - 1 ELSE a.e
             rr == SqrtBits(0, 0, Base4(x), 27)
         IN  FRound(0, rr[1], e \div 2 - 14, rr[2] # 0)

\* f32::signum: 1.0 or -1.0 by the sign bit, NaN for NaN
fsignum(a) == IF IsNaN(a) THEN FNaN ELSE FNum(a.s, P23, -23)

\* f32::min and f32::max: the other operand when one is NaN
fmin(a, b) == IF IsNaN(a) THEN b ELSE IF IsNaN(b) THEN a ELSE IF flt(b, a) THEN b ELSE a

fmax(a, b) == IF IsNaN(a) THEN b ELSE IF IsNaN(b) THEN a ELSE IF flt(a, b) THEN b ELSE a

(***************************************************************************)
(* Corner detection (shape.rs).  normalize() scales a direction by         *)
(* 1/length; the model compares the normalised vectors through            *)
(* expressions that do not change under a positive scaling: the sign of    *)
(* the dot product, and |cross|/(|a||b|) > N/D as                          *)
(* cross^2 * D^2 > N^2 * |a|^2 * |b|^2 on the primitive (gcd-reduced)      *)
(* vectors.  A zero direction normalises to NaN (0 * inf), and every       *)
(* comparison with NaN is false.                                           *)
(***************************************************************************)
RECURSIVE Gcd(_, _)
Gcd(a, b) == IF b = 0 THEN a ELSE Gcd(b, a % b)

Primitive(v) ==
    LET g == Gcd(Abs(v[1]), Abs(v[2])) IN
    IF g = 0 THEN v ELSE <<v[1] \div g, v[2] \div g>>

\* variant: the test with a strictly negative dot product
corner_test_strict(a, b, threshold) ==
    /\ ~IsZero(a)
    /\ ~IsZero(b)
    /\ \/ dot(a, b) < 0
       \/ threshold[1] < 0
       \/ cross(a, b) * cross(a, b) * threshold[2] * threshold[2]
            > threshold[1] * threshold[1] * length_sqr(a) * length_sqr(b)

\* the test of is_corner on the primitive directions a and b
corner_test(a, b, threshold) ==
    /\ ~IsZero(a)
    /\ ~IsZero(b)
    /\ \/ dot(a, b) <= 0
       \/ threshold[1] < 0
       \/ cross(a, b) * cross(a, b) * threshold[2] * threshold[2]
            > threshold[1] * threshold[1] * length_sqr(a) * length_sqr(b)

\* threshold = <<N, D>> stands for the cross threshold sin(angle) = N/D, D > 0
is_corner(a_dir, b_dir, threshold) ==
    corner_test(Primitive(a_dir), Primitive(b_dir), threshold)

(***************************************************************************)
(* Shape::color_edges (shape.rs).  A value that the source computes once   *)
(* and uses several times is passed to a helper operator as an argument.   *)
(***************************************************************************)
\* the corner loop: the 0-based indices i whose start vertex is a corner
find_corners(edges, threshold) ==
    LET m == Len(edges)
        prev(i) == direction(edges[IF i = 0 THEN m ELSE i].segment, 1)
    IN  SelectSeq([k \in 1..m |-> k - 1],
                  LAMBDA i : is_corner(prev(i), direction(edges[i + 1].segment, 0), threshold))

\* variant: only the first edge gets the colour of sw
paint_first(edges, sw) ==
    [edges |-> [k \in 1..Len(edges) |->
                    IF k = 1 THEN [edges[k] EXCEPT !.color = sw.color] ELSE edges[k]],
     color |-> sw.color, seed |-> sw.seed]

\* every edge gets the colour of sw, the result of a switch
paint_all(edges, sw) ==
    [edges |-> [k \in 1..Len(edges) |-> [edges[k] EXCEPT !.color = sw.color]],
     color |-> sw.color, seed |-> sw.seed]

\* variant: the smooth branch that leaves the edges as they came
color_smooth_untouched(edges, color, seed) ==
    [edges |-> edges, color |-> switch_color(color, seed).color,
     seed |-> switch_color(color, seed).seed]

\* the smooth branch: one switch, one colour for every edge
color_smooth(edges, color, seed) == paint_all(edges, switch_color(color, seed))

\* variant: the middle colour of a teardrop is BLACK
teardrop_second_black(c0, s2) ==
    [colors |-> <<c0, BLACK, s2.color>>, color |-> s2.color, seed |-> s2.seed]

\* colors[2] = color after the second switch, around colors[1] = WHITE
teardrop_second(c0, s2) ==
    [colors |-> <<c0, WHITE, s2.color>>, color |-> s2.color, seed |-> s2.seed]

\* variant: no second switch, colors[2] = colors[0]
teardrop_first_once(s1) == teardrop_second(s1.color, s1)

teardrop_first(s1) == teardrop_second(s1.color, switch_color(s1.color, s1.seed))

\* the three colours of a teardrop: two switches around WHITE
teardrop_colors(color, seed) == teardrop_first(switch_color(color, seed))

\* variant: the three colours in turn over the six parts
teardrop_two_cycled(a, b, colors) ==
    [j \in 1..6 |->
        colored((a \o b)[j],
                <<colors[1], colors[2], colors[3], colors[1], colors[2], colors[3]>>[j])]

\* m == 2: both edges split in three, two consecutive parts per colour
teardrop_two(a, b, colors) ==
    [j \in 1..6 |->
        colored((a \o b)[j],
                <<colors[1], colors[1], colors[2], colors[2], colors[3], colors[3]>>[j])]

\* m == 1: the edge split in three, one part per colour
teardrop_one(a, colors) == [j \in 1..3 |-> colored(a[j], colors[j])]

\* the edges of a teardrop whose only corner has the 0-based index corner
teardrop_edges(edges, corner, colors) ==
    LET m == Len(edges) IN
    IF m >= 3
    THEN [k \in 1..m |->
            [edges[k] EXCEPT !.color =
                colors[1 + symmetrical_trichotomy((k - 1 - corner) % m, m) + 1]]]
    ELSE IF m = 2
    THEN teardrop_two(split_in_three(edges[corner + 1].segment),
                      split_in_three(edges[(1 - corner) + 1].segment), colors)
    ELSE teardrop_one(split_in_three(edges[1].segment), colors)

teardrop_paint(edges, corner, tc) ==
    [edges |-> teardrop_edges(edges, corner, tc.colors), color |-> tc.color, seed |-> tc.seed]

\* the teardrop branch
color_teardrop(edges, corner, color, seed) ==
    teardrop_paint(edges, corner, teardrop_colors(color, seed))

RECURSIVE color_runs(_, _, _, _, _, _)
RECURSIVE color_paint(_, _, _, _, _, _)
\* the loop `for i in 0..m` of the multiple corner branch, from iteration i on;
\* cur is the running colour and seed
color_runs(edges, cs, i, spline, cur, initial_color) ==
    IF i = Len(edges) THEN [edges |-> edges, color |-> cur.color, seed |-> cur.seed]
    ELSE IF spline + 1 < Len(cs) /\ cs[spline + 2] = (cs[1] + i) % Len(edges)
    THEN color_paint(edges, cs, i, spline + 1,
                     switch_color_constrained(cur.color, cur.seed,
                         IF spline + 1 = Len(cs) - 1 THEN initial_color ELSE BLACK),
                     initial_color)
    ELSE color_paint(edges, cs, i, spline, cur, initial_color)

\* contour.edges[idx].color = color, and the next iteration
color_paint(edges, cs, i, spline, cur, initial_color) ==
    color_runs([edges EXCEPT ![((cs[1] + i) % Len(edges)) + 1].color = cur.color],
               cs, i + 1, spline, cur, initial_color)

color_start(edges, cs, sw) == color_runs(edges, cs, 0, 0, sw, sw.color)

\* the multiple corner branch
color_multiple(edges, cs, color, seed) == color_start(edges, cs, switch_color(color, seed))

color_branch(edges, cs, color, seed) ==
    IF cs = <<>> THEN color_smooth(edges, color, seed)
    ELSE IF Len(cs) = 1 THEN color_teardrop(edges, cs[1], color, seed)
    ELSE color_multiple(edges, cs, color, seed)

with_corners(r, cs) ==
    [edges |-> r.edges, corners |-> cs, color |-> r.color, seed |-> r.seed]

corners_found(edges, cs, color, seed) ==
    with_corners(color_branch(edges, cs, color, seed), cs)

\* an iteration that switches the colour for an empty contour as well
color_contour_counted(edges, cache, color, seed, threshold) ==
    IF edges = <<>>
    THEN [edges |-> edges, corners |-> cache, color |-> switch_color(color, seed).color,
          seed |-> switch_color(color, seed).seed]
    ELSE corners_found(edges, find_corners(edges, threshold), color, seed)

\* one iteration of `for contour in &mut self.contours`; cache is the corner vector
color_contour(edges, cache, color, seed, threshold) ==
    IF edges = <<>>
    THEN [edges |-> edges, corners |-> cache, color |-> color, seed |-> seed]
    ELSE corners_found(edges, find_corners(edges, threshold), color, seed)

RECURSIVE color_loop(_, _, _, _, _)
RECURSIVE color_next(_, _, _, _, _, _)
color_loop(cts, k, done, hist, threshold) ==
    IF k > Len(cts)
    THEN [contours |-> done.contours, corners |-> hist,
          color |-> done.color, seed |-> done.seed]
    ELSE color_next(cts, k, done, hist, threshold,
                    color_contour(cts[k], IF k = 1 THEN <<>> ELSE hist[k - 1],
                                  done.color, done.seed, threshold))

color_next(cts, k, done, hist, threshold, r) ==
    color_loop(cts, k + 1,
               [contours |-> Append(done.contours, r.edges), color |-> r.color,
                seed |-> r.seed],
               Append(hist, r.corners), threshold)

color_init(cts, threshold, ic) ==
    color_loop(cts, 1, [contours |-> <<>>, color |-> ic.color, seed |-> ic.seed],
               <<>>, threshold)

\* color_edges(self, angle, seed): the coloured contours, the corner vector as it
\* stood after each contour, and the final colour and seed
color_edges(cts, threshold, seed) == color_init(cts, threshold, init_color(seed))

(***************************************************************************)
(* Contour::winding (mod.rs).  The shoelace terms are f32 products and     *)
(* sums; f32::signum tells +0.0 (1.0) from -0.0 (-1.0), so an f32 is kept  *)
(* as [v, nz]: its value and, when the value is zero, whether it is -0.0.  *)
(* Coordinates are sums and differences of finite values and are never     *)
(* -0.0; a product is -0.0 when it is zero and one factor is negative.     *)
(***************************************************************************)
shoelace(a, b) ==
    LET dx == b[1] - a[1]
        sy == a[2] + b[2]
    IN  [v |-> dx * sy, nz |-> dx * sy = 0 /\ (dx < 0 \/ sy < 0)]

\* f32 addition: the sum is -0.0 only when both operands are -0.0
f32_add(x, y) == [v |-> x.v + y.v, nz |-> x.v = 0 /\ y.v = 0 /\ x.nz /\ y.nz]

\* variant: a sign function that is 0 at zero
signum_three_way(x) == IF x.v > 0 THEN 1 ELSE IF x.v < 0 THEN -1 ELSE 0

\* f32::signum followed by `as i32`
signum(x) == IF x.v > 0 \/ (x.v = 0 /\ ~x.nz) THEN 1 ELSE -1

RECURSIVE shoelace_sum(_, _, _, _)
\* the loop of the `_` arm from edge k on
shoelace_sum(edges, k, prev, sum) ==
    IF k > Len(edges) THEN sum
    ELSE LET p == sample(edges[k].segment, 0, 1) IN
         shoelace_sum(edges, k + 1, p, f32_add(sum, shoelace(prev, p)))

winding_total(edges) ==
    IF Len(edges) = 1
    THEN LET seg == edges[1].segment
             a == sample(seg, 0, 1)
             b == sample(seg, 1, 3)
             c == sample(seg, 2, 3)
         IN  f32_add(f32_add(shoelace(a, b), shoelace(b, c)), shoelace(c, a))
    ELSE IF Len(edges) = 2
    THEN LET a == sample(edges[1].segment, 0, 1)
             b == sample(edges[1].segment, 1, 2)
             c == sample(edges[2].segment, 0, 1)
             d == sample(edges[2].segment, 1, 2)
         IN  f32_add(f32_add(f32_add(shoelace(a, b), shoelace(b, c)), shoelace(c, d)),
                     shoelace(d, a))
    ELSE shoelace_sum(edges, 1, sample(edges[Len(edges)].segment, 0, 1),
                      [v |-> 0, nz |-> FALSE])

winding(edges) == IF Len(edges) = 0 THEN 0 ELSE signum(winding_total(edges))

(***************************************************************************)
(* The glyph outlines the font collaborator replays into the Builder       *)
(* (Face::outline_glyph): sequences of commands, every contour opened by   *)
(* move_to and ended by close.                                             *)
(***************************************************************************)
Coords == {0, 216}

Pts == {<<x, y>> : x \in Coords, y \in Coords}

CmdMove(p) == [op |-> "move_to", a |-> <<p>>]
CmdLine(p) == [op |-> "line_to", a |-> <<p>>]
CmdQuad(c, p) == [op |-> "quad_to", a |-> <<c, p>>]
CmdCurve(c1, c2, p) == [op |-> "curve_to", a |-> <<c1, c2, p>>]
CmdClose == [op |-> "close", a |-> <<>>]

\* every polyline of up to MaxEdges lines over the grid points, closed or not
PolyOutline(s) ==
    <<CmdMove(s[1])>> \o [i \in 1..(Len(s) - 1) |-> CmdLine(s[i + 1])] \o <<CmdClose>>

PolyGlyphs == UNION {{PolyOutline(s) : s \in [1..(k + 1) -> Pts]} : k \in 0..MaxEdges}

\* every contour of one curve over the grid points
CurveGlyphs ==
    {<<CmdMove(a), CmdQuad(c, p), CmdClose>> : a \in Pts, c \in Pts, p \in Pts}
    \cup {<<CmdMove(x[1]), CmdCurve(x[2], x[3], x[4]), CmdClose>> : x \in [1..4 -> Pts]}

\* k collinear lines closed by a cubic that comes back at a right angle
\* (one corner, k + 1 edges), and the same lines left open (no corner)
Straight(k) == <<CmdMove(<<0, 0>>)>> \o [i \in 1..k |-> CmdLine(<<216 * i, 0>>)]

TeardropGlyphs ==
    {Straight(k) \o <<CmdCurve(<<216 * (k + 1), 0>>, <<0, 216>>, <<0, 0>>), CmdClose>>
        : k \in 0..MaxEdges}

Lens ==
    <<CmdMove(<<0, 216>>),
      CmdCurve(<<0, 432>>, <<432, 432>>, <<432, 216>>),
      CmdCurve(<<432, 0>>, <<0, 0>>, <<0, 216>>), CmdClose>>

Circle ==
    <<CmdMove(<<432, 216>>),
      CmdQuad(<<432, 432>>, <<216, 432>>), CmdQuad(<<0, 432>>, <<0, 216>>),
      CmdQuad(<<0, 0>>, <<216, 0>>), CmdQuad(<<432, 0>>, <<432, 216>>), CmdClose>>

\* a teardrop of exactly two cubics and one of two quads
Teardrop2 ==
    <<CmdMove(<<0, 0>>),
      CmdCurve(<<216, 0>>, <<432, 0>>, <<432, 216>>),
      CmdCurve(<<432, 432>>, <<0, 432>>, <<0, 0>>), CmdClose>>

\* the same contour listed from its smooth joint: the corner is its second vertex
Teardrop2R ==
    <<CmdMove(<<432, 216>>),
      CmdCurve(<<432, 432>>, <<0, 432>>, <<0, 0>>),
      CmdCurve(<<216, 0>>, <<432, 0>>, <<432, 216>>), CmdClose>>

Teardrop2Q ==
    <<CmdMove(<<0, 0>>),
      CmdQuad(<<432, 0>>, <<432, 216>>),
      CmdQuad(<<432, 648>>, <<0, 0>>), CmdClose>>

Square ==
    <<CmdMove(<<0, 0>>), CmdLine(<<216, 0>>), CmdLine(<<216, 216>>), CmdLine(<<0, 216>>),
      CmdLine(<<0, 0>>), CmdClose>>

Empty == <<CmdMove(<<0, 0>>), CmdClose>>

\* glyphs of two contours
Parts == {Empty, Square, Lens, Teardrop2, Straight(1) \o <<CmdClose>>}

PairGlyphs == {a \o b : a \in Parts, b \in Parts}

Glyphs ==
    PolyGlyphs \cup CurveGlyphs \cup TeardropGlyphs
        \cup {Lens, Circle, Teardrop2, Teardrop2R, Teardrop2Q} \cup PairGlyphs

\* cross thresholds sin(angle) as <<N, D>>: angle = pi/2 (sin = 1.0 in f32) and
\* angle = 3.0 (sin = 0.14112).  The caller's angle 2.0 (sin = 0.9093) selects the
\* same corners as pi/2 on these outlines, whose turns are multiples of 45 degrees.
Thresholds == {<<1, 1>>, <<141, 1000>>}

(***************************************************************************)
(* The Builder (build.rs), driven by the outline of one glyph.             *)
(***************************************************************************)
None == [some |-> FALSE]

Some(x) == [some |-> TRUE, v |-> x]

white_edge(s) == colored(s, WHITE)

others == <<wind, tri, sel, call, more>>

move_to ==
    /\ outline # <<>> /\ Head(outline).op = "move_to"
    /\ current' = Some(<<>>)
    /\ cur_pos' = Head(outline).a[1]
    /\ outline' = Tail(outline)
    /\ UNCHANGED <<contours, coloured, corners, others>>

close ==
    /\ outline # <<>> /\ Head(outline).op = "close"
    /\ current.some
    /\ contours' = Append(contours, current.v)
    /\ current' = None
    /\ outline' = Tail(outline)
    /\ UNCHANGED <<cur_pos, coloured, corners, others>>

line_to ==
    /\ outline # <<>> /\ Head(outline).op = "line_to"
    /\ current.some
    /\ LET next == Head(outline).a[1] IN
        /\ current' = Some(Append(current.v, white_edge(Line(cur_pos, next))))
        /\ cur_pos' = next
    /\ outline' = Tail(outline)
    /\ UNCHANGED <<contours, coloured, corners, others>>

quad_to ==
    /\ outline # <<>> /\ Head(outline).op = "quad_to"
    /\ current.some
    /\ LET next == Head(outline).a[2] IN
        /\ current' = Some(Append(current.v,
                                  white_edge(Quad(cur_pos, Head(outline).a[1], next))))
        /\ cur_pos' = next
    /\ outline' = Tail(outline)
    /\ UNCHANGED <<contours, coloured, corners, others>>

curve_to ==
    /\ outline # <<>> /\ Head(outline).op = "curve_to"
    /\ current.some
    /\ LET next == Head(outline).a[3] IN
        /\ current' = Some(Append(current.v,
                white_edge(Cubic(cur_pos, Head(outline).a[1], Head(outline).a[2], next))))
        /\ cur_pos' = next
    /\ outline' = Tail(outline)
    /\ UNCHANGED <<contours, coloured, corners, others>>

\* Shape::from_glyph hands the finished contours to color_edges(angle, seed)
ColorEdges ==
    /\ outline = <<>> /\ ~current.some /\ ~coloured.some
    /\ \E seed \in 0..MaxSeed, threshold \in Thresholds :
          \E r \in {color_edges(contours, threshold, seed)} :
          /\ coloured' = [some |-> TRUE, contours |-> r.contours, color |-> r.color,
                          seed |-> r.seed, threshold |-> threshold]
          /\ corners' = r.corners
    /\ UNCHANGED <<outline, contours, current, cur_pos, others>>

\* Contour::winding on a contour of the finished Shape
Winding ==
    /\ outline = <<>> /\ ~current.some
    /\ \E i \in 1..Len(contours) :
          wind' = [idx |-> i, val |-> winding(contours[i])]
    /\ UNCHANGED <<outline, contours, current, cur_pos, coloured, corners, tri, sel, call, more>>

NoTri == [n |-> 0, position |-> 0, total |-> 0]

NoSel == [on |-> FALSE]

\* no distance query, evaluation loop, rasterizer, MTEdgeSelector or colour state
NoMore ==
    /\ query = NoSel
    /\ shot = NoSel
    /\ ras = NoSel
    /\ mt = NoSel
    /\ col = NoSel

\* no outline is being replayed
NoGlyph ==
    /\ contours = <<>>
    /\ current = None
    /\ cur_pos = <<0, 0>>
    /\ coloured = [some |-> FALSE]
    /\ corners = <<>>
    /\ wind = [idx |-> 0, val |-> 0]

Init ==
    /\ outline \in Glyphs
    /\ NoGlyph
    /\ tri = NoTri
    /\ sel = NoSel
    /\ call = NoSel
    /\ NoMore

Next ==
    \/ move_to
    \/ close
    \/ line_to
    \/ quad_to
    \/ curve_to
    \/ ColorEdges

Spec == Init /\ [][Next]_vars

\* the Builder followed by calls of Contour::winding
NextWinding ==
    \/ move_to
    \/ close
    \/ line_to
    \/ quad_to
    \/ curve_to
    \/ Winding

SpecWinding == Init /\ [][NextWinding]_vars

(***************************************************************************)
(* The balance of symmetrical_trichotomy: "the total for positions 0       *)
(* through n-1" of its documentation, as a loop over the positions.        *)
(***************************************************************************)
InitTri ==
    /\ outline = <<>>
    /\ NoGlyph
    /\ \E n \in 2..MaxN : tri = [n |-> n, position |-> 0, total |-> 0]
    /\ sel = NoSel
    /\ call = NoSel
    /\ NoMore

TriStep ==
    /\ tri.position < tri.n
    /\ tri' = [tri EXCEPT !.position = @ + 1,
                          !.total = @ + symmetrical_trichotomy(tri.position, tri.n)]
    /\ UNCHANGED <<outline, contours, current, cur_pos, coloured, corners, wind, sel, call, more>>

NextTri == TriStep

SpecTri == InitTri /\ [][NextTri]_vars

(***************************************************************************)
(* SignedDistance and PerpEdgeSelector (mod.rs, render.rs), over f32.      *)
(* The calls of SpecSel offer the distances -MaxDist .. MaxDist and the     *)
(* dots 0, 1/4, .. MaxDot/4.                                               *)
(***************************************************************************)
\* std::f32::MAX = (2^24 - 1) * 2^104; std::f32::MIN is its negation
F32_MAX == FNum(0, P24 - 1, 104)

SignedDistance(dist, d) == [dist |-> dist, dot |-> d]

\* variant: |dist| first, then the higher dot
SignedDistanceLt_higher_dot(a, b) ==
    \/ flt(fabs(a.dist), fabs(b.dist))
    \/ feq(fabs(a.dist), fabs(b.dist)) /\ flt(b.dot, a.dot)

\* a < b by PartialOrd::partial_cmp: |dist| first, then dot
SignedDistanceLt(a, b) ==
    \/ flt(fabs(a.dist), fabs(b.dist))
    \/ feq(fabs(a.dist), fabs(b.dist)) /\ flt(a.dot, b.dot)

\* PerpEdgeSelector::new
PerpEdgeSelector_new ==
    [on |-> TRUE,
     min_true_distance |-> SignedDistance(F32_MAX, FZero(0)),
     min_positive_perp_dist |-> F32_MAX,
     min_negative_perp_dist |-> fneg(F32_MAX),
     near_edge |-> None,
     near_edge_t |-> FZero(0)]

\* PerpEdgeSelector::add_edge_true_distance
add_edge_true_distance(self, edge, dist, t) ==
    IF SignedDistanceLt(dist, self.min_true_distance)
    THEN [self EXCEPT !.min_true_distance = dist,
                      !.near_edge = Some(edge),
                      !.near_edge_t = t]
    ELSE self

\* PerpEdgeSelector::add_edge_perp_distance
add_edge_perp_distance(self, dist) ==
    IF fle(dist, FZero(0)) /\ flt(self.min_negative_perp_dist, dist)
    THEN [self EXCEPT !.min_negative_perp_dist = dist]
    ELSE IF fle(FZero(0), dist) /\ flt(dist, self.min_positive_perp_dist)
    THEN [self EXCEPT !.min_positive_perp_dist = dist]
    ELSE self

\* the edges and parameters offered to the selector; t is in halves
SelEdges ==
    {colored(Line(<<0, 0>>, <<216, 0>>), CYAN),
     colored(Line(<<216, 0>>, <<216, 216>>), YELLOW)}

SelTs == {FDyadic(-1, 1), FDyadic(1, 1)}

PerpDists == {FInt(d) : d \in (-MaxDist)..MaxDist}

Dists == {SignedDistance(d, FDyadic(c, 2)) : d \in PerpDists, c \in 0..MaxDot}

InitSel ==
    /\ outline = <<>>
    /\ NoGlyph
    /\ tri = NoTri
    /\ sel = PerpEdgeSelector_new
    /\ call = [op |-> "new"]
    /\ NoMore

AddEdgeTrueDistance ==
    /\ \E edge \in SelEdges, dist \in Dists, t \in SelTs :
          /\ sel' = add_edge_true_distance(sel, edge, dist, t)
          /\ call' = [op |-> "add_edge_true_distance", dist |-> dist]
    /\ UNCHANGED <<outline, contours, current, cur_pos, coloured, corners, wind, tri, more>>

AddEdgePerpDistance ==
    /\ \E dist \in PerpDists :
          /\ sel' = add_edge_perp_distance(sel, dist)
          /\ call' = [op |-> "add_edge_perp_distance", dist |-> dist]
    /\ UNCHANGED <<outline, contours, current, cur_pos, coloured, corners, wind, tri, more>>

NextSel ==
    \/ AddEdgeTrueDistance
    \/ AddEdgePerpDistance

SpecSel == InitSel /\ [][NextSel]_vars

(***************************************************************************)
(* Properties of color_edges, checked under Spec.                          *)
(***************************************************************************)
TwoChannel == {CYAN, MAGENTA, YELLOW}

\* contour i of the coloured shape came from a non-empty contour
Coloured(i) == coloured.some /\ i \in 1..Len(contours) /\ contours[i] # <<>>

NumCorners(i) == Len(corners[i])

Sq == <<<<0, 0>>, <<216, 0>>, <<216, 216>>, <<0, 216>>>>

\* the square (0,0),(1,0),(1,1),(0,1) in units of 216, as the Builder leaves it
SquareContour == [k \in 1..4 |-> white_edge(Line(Sq[k], Sq[(k % 4) + 1]))]

\* C1: after color_edges no edge of any contour is Black, whichever branch
\* (smooth, teardrop, multiple corners) coloured its contour.
C1_NoBlackEdge ==
    coloured.some =>
        \A i \in 1..Len(coloured.contours) :
            \A j \in 1..Len(coloured.contours[i]) : coloured.contours[i][j].color # BLACK

\* a teardrop of three or more edges, coloured through the trichotomy
C1_Witness ==
    \E i \in 1..Len(contours) :
        /\ Coloured(i) /\ NumCorners(i) = 1 /\ Len(contours[i]) >= 3
        /\ \E j \in 1..Len(coloured.contours[i]) : coloured.contours[i][j].color = WHITE

\* each edge of c ends where the next one starts, the last one where the first starts
Closed(c) ==
    \A j \in 1..Len(c) :
        sample(c[j].segment, 1, 1) = sample(c[(j % Len(c)) + 1].segment, 0, 1)

\* C2 as stated, on the contours that are closed: an edge is White only if its
\* contour had no corner.
C2_WhiteOnlySmooth ==
    \A i \in 1..Len(contours) :
        (Coloured(i) /\ Closed(contours[i])) =>
            \A j \in 1..Len(coloured.contours[i]) :
                coloured.contours[i][j].color = WHITE => NumCorners(i) = 0

\* C2 amended: an edge is White only if its contour had exactly one corner (the
\* middle colour of a teardrop); smooth and multiple corner contours have none.
C2_WhiteOnlyTeardrop ==
    \A i \in 1..Len(contours) :
        Coloured(i) =>
            \A j \in 1..Len(coloured.contours[i]) :
                coloured.contours[i][j].color = WHITE => NumCorners(i) = 1

\* a coloured shape with a White edge next to a smooth contour
C2_Witness ==
    /\ \E i \in 1..Len(contours) :
          Coloured(i) /\ \E j \in 1..Len(coloured.contours[i]) :
                            coloured.contours[i][j].color = WHITE
    /\ \E i \in 1..Len(contours) : Coloured(i) /\ NumCorners(i) = 0

\* C3: in a contour with two or more corners, the edge that starts at a corner
\* differs in colour from the edge before it (cyclically, so also across the first
\* corner), and the run of the last corner differs from the run of the first.
C3_CornersSwitch ==
    \A i \in 1..Len(contours) :
        (Coloured(i) /\ NumCorners(i) >= 2) =>
            LET e == coloured.contours[i]
                m == Len(e)
                cs == corners[i]
            IN  /\ \A k \in 1..Len(cs) :
                      e[cs[k] + 1].color # e[((cs[k] + m - 1) % m) + 1].color
                /\ e[cs[Len(cs)] + 1].color # e[cs[1] + 1].color

\* a coloured contour with three or more corners and more edges than corners
C3_Witness ==
    \E i \in 1..Len(contours) :
        Coloured(i) /\ NumCorners(i) >= 3 /\ Len(contours[i]) > NumCorners(i)

\* C4: a contour without corners keeps its edges, and all of them get one colour
\* among Cyan, Magenta, Yellow.
C4_SmoothOneColour ==
    \A i \in 1..Len(contours) :
        (Coloured(i) /\ NumCorners(i) = 0) =>
            LET e == coloured.contours[i] IN
            /\ Len(e) = Len(contours[i])
            /\ e[1].color \in TwoChannel
            /\ \A j \in 1..Len(e) :
                  e[j].color = e[1].color /\ e[j].segment = contours[i][j].segment

\* a smooth contour of four edges
C4_Witness ==
    \E i \in 1..Len(contours) :
        Coloured(i) /\ NumCorners(i) = 0 /\ Len(contours[i]) = 4

\* C5: a teardrop of m = 1 or 2 edges becomes 3*m edges, the thirds of the
\* original edges listed from the corner, and edge j carries colours[j div m] of
\* colours = [C0, White, C1].
C5_TeardropSplit ==
    \A i \in 1..Len(contours) :
        (Coloured(i) /\ NumCorners(i) = 1 /\ Len(contours[i]) \in {1, 2}) =>
            LET e == coloured.contours[i]
                m == Len(contours[i])
                corner == corners[i][1]
            IN  /\ Len(e) = 3 * m
                /\ e[1].color \in TwoChannel
                /\ e[3 * m].color \in TwoChannel
                /\ \A j \in 0..(3 * m - 1) :
                      /\ e[j + 1].segment =
                            split_in_three(
                                contours[i][((corner + j \div 3) % m) + 1].segment)[(j % 3) + 1]
                      /\ e[j + 1].color = <<e[1].color, WHITE, e[3 * m].color>>[(j \div m) + 1]

\* a teardrop of two edges whose corner is its second vertex
C5_Witness ==
    \E i \in 1..Len(contours) :
        /\ Coloured(i) /\ NumCorners(i) = 1 /\ Len(contours[i]) = 2
        /\ corners[i][1] = 1

\* C6: on the square with the threshold sin(90 deg) = 1 all four vertices are
\* corners and no edge is left White, for every seed.
C6_Square ==
    (coloured.some /\ contours = <<SquareContour>> /\ coloured.threshold = <<1, 1>>) =>
        /\ corners = <<<<0, 1, 2, 3>>>>
        /\ \A j \in 1..4 : coloured.contours[1][j].color # WHITE

\* the coloured square, from a seed with three set bits
C6_Witness ==
    /\ coloured.some /\ contours = <<SquareContour>> /\ coloured.threshold = <<1, 1>>
    /\ coloured.contours[1][1].color # coloured.contours[1][3].color

(***************************************************************************)
(* Property of symmetrical_trichotomy, checked under SpecTri.              *)
(***************************************************************************)
\* C7: the total of symmetrical_trichotomy over the positions 0 .. n-1 is zero.
C7_Balanced == tri.position = tri.n => tri.total = 0

(***************************************************************************)
(* Property of the Builder, checked under Spec.                            *)
(***************************************************************************)
\* C8: in every contour the Builder has closed, each edge ends where the next
\* one starts, and the last edge ends where the first one starts.
C8_ContourClosed == \A i \in 1..Len(contours) : Closed(contours[i])

(***************************************************************************)
(* Property of Contour::winding, checked under SpecWinding.                *)
(***************************************************************************)
\* C9: winding is 1 or -1 on a contour with edges and 0 on one without.
C9_WindingSign ==
    wind.idx > 0 =>
        IF contours[wind.idx] = <<>> THEN wind.val = 0 ELSE wind.val \in {1, -1}

\* winding was called on a contour of two edges whose shoelace total is zero
C9_Witness ==
    /\ wind.idx > 0
    /\ Len(contours[wind.idx]) = 2
    /\ winding_total(contours[wind.idx]).v = 0

(***************************************************************************)
(* Properties of the selector, checked under SpecSel.                      *)
(***************************************************************************)
\* the candidate of this step ties with the recorded minimum on |dist|
TieStep ==
    /\ call'.op = "add_edge_true_distance"
    /\ feq(fabs(call'.dist.dist), fabs(sel.min_true_distance.dist))

Replaced ==
    /\ sel'.min_true_distance = call'.dist
    /\ sel'.near_edge.some

\* C10 as stated: on a tie of |dist| the candidate replaces the recorded minimum
\* exactly when its dot is higher.
C10_HigherDotWins ==
    [][TieStep =>
        IF flt(sel.min_true_distance.dot, call'.dist.dot)
        THEN Replaced ELSE sel' = sel]_vars

\* C10 amended: on a tie of |dist| the candidate replaces the recorded minimum
\* exactly when its dot is lower.
C10_LowerDotWins ==
    [][TieStep =>
        IF flt(call'.dist.dot, sel.min_true_distance.dot)
        THEN Replaced ELSE sel' = sel]_vars

\* a candidate that tied on |dist| with a higher dot has just been turned down
C10_Witness ==
    /\ call.op = "add_edge_true_distance"
    /\ feq(fabs(sel.min_true_distance.dist), fabs(call.dist.dist))
    /\ flt(sel.min_true_distance.dot, call.dist.dot)

(***************************************************************************)
(* Vec2 and Segment over f32 (mod.rs, segment.rs), for the distance         *)
(* evaluation.  The control points of a segment are integers (font units),  *)
(* a query point and every computed vector is a pair of f32 values.        *)
(***************************************************************************)
FVec(p) == <<FInt(p[1]), FInt(p[2])>>

\* let x = v; F(x): a local binding of the source, v evaluated first
Let(v, F(_)) == CHOOSE r \in {F(x) : x \in {v}} : TRUE

fvadd(a, b) == <<fadd(a[1], b[1]), fadd(a[2], b[2])>>

fvsub(a, b) == <<fsub(a[1], b[1]), fsub(a[2], b[2])>>

fvneg(a) == <<fneg(a[1]), fneg(a[2])>>

fvmul(a, k) == <<fmul(a[1], k), fmul(a[2], k)>>

\* variant: the two directions of rotation exchanged
forthogonal_exchanged(a, counter_clockwise) ==
    IF counter_clockwise THEN <<a[2], fneg(a[1])>> ELSE <<fneg(a[2]), a[1]>>

\* Vec2::orthogonal
forthogonal(a, counter_clockwise) ==
    IF counter_clockwise THEN <<fneg(a[2]), a[1]>> ELSE <<a[2], fneg(a[1])>>

fdot(a, b) == fadd(fmul(a[1], b[1]), fmul(a[2], b[2]))

fcross(a, b) == fsub(fmul(a[1], b[2]), fmul(a[2], b[1]))

\* variant: the square of the x component alone
flength_sqr_x(a) == fmul(a[1], a[1])

flength_sqr(a) == fadd(fmul(a[1], a[1]), fmul(a[2], a[2]))

flength(a) == fsqrt(flength_sqr(a))

F32_ONE == FNum(0, P23, -23)

F32_HALF == FNum(0, P23, -24)

\* Vec2::normalize: self * (1.0 / l)
fscale(a, l) == fvmul(a, fdiv(F32_ONE, l))

fnormalize(a) == fscale(a, flength(a))

\* lerp: a + (b - a)*t
flerp(a, b, t) == fvadd(a, fvmul(fvsub(b, a), t))

\* Segment::sample at the f32 parameter t
fsample(s, t) ==
    LET q == [i \in 1..Len(s.p) |-> FVec(s.p[i])] IN
    CASE s.kind = "Line" -> flerp(q[1], q[2], t)
      [] s.kind = "Quad" -> flerp(flerp(q[1], q[2], t), flerp(q[2], q[3], t), t)
      [] s.kind = "Cubic" ->
            Let(flerp(q[2], q[3], t), LAMBDA p12 :
                flerp(flerp(flerp(q[1], q[2], t), p12, t),
                      flerp(p12, flerp(q[3], q[4], t), t), t))

\* Segment::signed_distance, the Line arm: [dist, t]
line_signed_distance(p0, p1, p) ==
    Let(fvsub(p, p0), LAMBDA aq :
    Let(fvsub(p1, p0), LAMBDA ab :
    Let(fdiv(fdot(aq, ab), flength_sqr(ab)), LAMBDA t :
    Let(fvsub(IF flt(t, F32_HALF) THEN p0 ELSE p1, p), LAMBDA eq :
    Let(flength(eq), LAMBDA endpoint_dist :
    Let(fdot(fnormalize(forthogonal(ab, FALSE)), aq), LAMBDA ortho_dist :
        IF flt(FZero(0), t) /\ flt(t, F32_ONE) /\ flt(fabs(ortho_dist), endpoint_dist)
        THEN [dist |-> SignedDistance(ortho_dist, FZero(0)), t |-> t]
        ELSE [dist |-> SignedDistance(fmul(fsignum(fcross(aq, ab)), endpoint_dist),
                                      fabs(fdot(fnormalize(ab), fnormalize(eq)))),
              t |-> t]))))))

signed_distance(s, p) == line_signed_distance(FVec(s.p[1]), FVec(s.p[2]), p)

(***************************************************************************)
(* Calls of Segment::signed_distance on a Line: every line from a start    *)
(* point in {0, 1}^2 to another point of the grid 0 .. MaxCoord, measured   *)
(* from its own midpoint sample(0.5) or from a point of the grid.           *)
(***************************************************************************)
LineStarts == {<<x, y>> : x \in 0..1, y \in 0..1}

GridPts == {<<x, y>> : x \in 0..MaxCoord, y \in 0..MaxCoord}

QueryLines == {Line(x[1], x[2]) : x \in {y \in LineStarts \X GridPts : y[1] # y[2]}}

InitDist ==
    /\ outline = <<>>
    /\ NoGlyph
    /\ tri = NoTri
    /\ sel = NoSel
    /\ call = NoSel
    /\ shot = NoSel /\ ras = NoSel /\ mt = NoSel /\ col = NoSel
    /\ \E seg \in QueryLines :
          \/ query = [on |-> TRUE, seg |-> seg, at |-> "midpoint", pt |-> <<0, 0>>,
                      p |-> fsample(seg, F32_HALF), done |-> FALSE]
          \/ \E pt \in GridPts :
                query = [on |-> TRUE, seg |-> seg, at |-> "grid", pt |-> pt,
                         p |-> FVec(pt), done |-> FALSE]

\* let (dist, t) = segment.signed_distance(p)
SignedDistanceCall ==
    /\ query.on /\ ~query.done
    /\ \E r \in {signed_distance(query.seg, query.p)} :
          query' = [on |-> TRUE, seg |-> query.seg, at |-> query.at, pt |-> query.pt,
                    p |-> query.p, done |-> TRUE, dist |-> r.dist, t |-> r.t]
    /\ UNCHANGED <<outline, contours, current, cur_pos, coloured, corners, wind, tri, sel,
                   call, shot, ras, mt, col>>

NextDist == SignedDistanceCall

SpecDist == InitDist /\ [][NextDist]_vars

(***************************************************************************)
(* Properties of signed_distance on a Line, checked under SpecDist.        *)
(***************************************************************************)
MidpointDone == query.on /\ query.done /\ query.at = "midpoint"

\* C13 as stated: from the midpoint of a line the distance is exactly 0, the dot
\* is 0 and t is 0.5.
C13_MidpointExact ==
    MidpointDone =>
        /\ IsFZero(query.dist.dist)
        /\ IsFZero(query.dist.dot)
        /\ query.t = F32_HALF

\* C13 amended: from the midpoint of a line with integer end points, t is 0.5
\* and the dot is 0, and the distance is zero up to rounding: its magnitude is at
\* most 2^-23 times the length of the line.
C13_MidpointRounded ==
    MidpointDone =>
        /\ fle(fabs(query.dist.dist),
               fmul(FNum(0, P23, -46), flength(FVec(VSub(query.seg.p[2], query.seg.p[1])))))
        /\ IsFZero(query.dist.dot)
        /\ query.t = F32_HALF

\* the distance from the midpoint of a line came out as a non-zero rounding error
C13_Witness == MidpointDone /\ ~IsFZero(query.dist.dist)

\* cross(u, v) of the exact vectors, for the query from the grid point query.pt
CrossAbAq == cross(VSub(query.seg.p[2], query.seg.p[1]), VSub(query.pt, query.seg.p[1]))

OffLineDone == query.on /\ query.done /\ query.at = "grid" /\ CrossAbAq # 0

\* C20 as stated: off the supporting line, the distance has the sign of
\* cross(ab, aq).
C20_SignCrossAbAq ==
    OffLineDone =>
        /\ ~IsFZero(query.dist.dist)
        /\ query.dist.dist.s = (IF CrossAbAq < 0 THEN 1 ELSE 0)

\* C20 amended: off the supporting line, the distance has the sign of
\* cross(aq, ab) = -cross(ab, aq), in the orthogonal and in the end point case.
C20_SignCrossAqAb ==
    OffLineDone =>
        /\ query.dist.dist.k = "num"
        /\ ~IsFZero(query.dist.dist)
        /\ query.dist.dist.s = (IF CrossAbAq > 0 THEN 1 ELSE 0)

\* a distance to an end point (non-zero dot) from a point off the supporting line
C20_Witness == OffLineDone /\ ~IsFZero(query.dist.dot)

(***************************************************************************)
(* add_edge_perp_distance alone, on a fresh PerpEdgeSelector; call.added    *)
(* keeps the distances handed to it so far.                                *)
(***************************************************************************)
InitPerp ==
    /\ outline = <<>>
    /\ NoGlyph
    /\ tri = NoTri
    /\ sel = PerpEdgeSelector_new
    /\ call = [op |-> "new", added |-> {}]
    /\ NoMore

AddEdgePerpDistanceLogged ==
    /\ \E dist \in PerpDists :
          /\ sel' = add_edge_perp_distance(sel, dist)
          /\ call' = [op |-> "add_edge_perp_distance", dist |-> dist,
                      added |-> call.added \cup {dist}]
    /\ UNCHANGED <<outline, contours, current, cur_pos, coloured, corners, wind, tri, more>>

NextPerp == AddEdgePerpDistanceLogged

SpecPerp == InitPerp /\ [][NextPerp]_vars

(***************************************************************************)
(* Property of add_edge_perp_distance, checked under SpecPerp.             *)
(***************************************************************************)
\* the smallest of the set S of f32 values, or none when S is empty
Least(S, none) == IF S = {} THEN none ELSE CHOOSE x \in S : \A y \in S : fle(x, y)

Greatest(S, none) == IF S = {} THEN none ELSE CHOOSE x \in S : \A y \in S : fle(y, x)

\* C17: min_positive_perp_dist is the smallest distance >= 0 added (f32::MAX if
\* none) and min_negative_perp_dist the largest distance <= 0 added (f32::MIN if
\* none); after 0 was added both are 0.
C17_PerpExtrema ==
    /\ sel.min_positive_perp_dist =
          Least({d \in call.added : fle(FZero(0), d)}, F32_MAX)
    /\ sel.min_negative_perp_dist =
          Greatest({d \in call.added : fle(d, FZero(0))}, fneg(F32_MAX))

(***************************************************************************)
(* The running colour of color_edges on its own: init_color, then calls of *)
(* switch_color and switch_color_constrained in any order.  col.prev is    *)
(* the colour before the last call.                                        *)
(***************************************************************************)
Banned == {BLACK, CYAN, MAGENTA, YELLOW}

InitColor ==
    /\ outline = <<>>
    /\ NoGlyph
    /\ tri = NoTri
    /\ sel = NoSel
    /\ call = NoSel
    /\ query = NoSel /\ shot = NoSel /\ ras = NoSel /\ mt = NoSel
    /\ \E seed \in 0..MaxSeed :
          \E r \in {init_color(seed)} :
             col = [on |-> TRUE, op |-> "init_color", color |-> r.color, seed |-> r.seed,
                    prev |-> BLACK, banned |-> BLACK]

SwitchColor ==
    /\ col.on
    /\ \E r \in {switch_color(col.color, col.seed)} :
          col' = [on |-> TRUE, op |-> "switch_color", color |-> r.color, seed |-> r.seed,
                  prev |-> col.color, banned |-> BLACK]
    /\ UNCHANGED <<outline, contours, current, cur_pos, coloured, corners, wind, tri, sel,
                   call, query, shot, ras, mt>>

SwitchColorConstrained ==
    /\ col.on
    /\ \E banned \in Banned :
          \E r \in {switch_color_constrained(col.color, col.seed, banned)} :
             col' = [on |-> TRUE, op |-> "switch_color_constrained", color |-> r.color,
                     seed |-> r.seed, prev |-> col.color, banned |-> banned]
    /\ UNCHANGED <<outline, contours, current, cur_pos, coloured, corners, wind, tri, sel,
                   call, query, shot, ras, mt>>

NextColor ==
    \/ SwitchColor
    \/ SwitchColorConstrained

SpecColor == InitColor /\ [][NextColor]_vars

(***************************************************************************)
(* Property of the running colour, checked under SpecColor.                *)
(***************************************************************************)
\* C19: the running colour is always Cyan, Magenta or Yellow (so from_bits finds
\* a Color), and every switch leaves it different from the colour before.
C19_ColourCycle ==
    col.on =>
        /\ col.color \in TwoChannel
        /\ col.op # "init_color" => col.color # col.prev

\* a constrained switch that took the complement of the common channel
C19_Witness ==
    /\ col.on /\ col.op = "switch_color_constrained"
    /\ BitAnd(col.prev, col.banned) \in {RED, GREEN, BLUE}
    /\ col.color = BitXor(BitAnd(col.prev, col.banned), WHITE)

(***************************************************************************)
(* PerpEdgeSelector::add_edge and distance, and one_shot_distance           *)
(* (render.rs).  The shapes evaluated are made of Line edges.               *)
(***************************************************************************)
\* Segment::direction at the f32 parameter t
fdirection(s, t) ==
    LET q == [i \in 1..Len(s.p) |-> FVec(s.p[i])]
        zero(v) == IsFZero(v[1]) /\ IsFZero(v[2])
    IN
    CASE s.kind = "Line" -> fvsub(q[2], q[1])
      [] s.kind = "Quad" ->
            Let(flerp(fvsub(q[2], q[1]), fvsub(q[3], q[2]), t), LAMBDA tangent :
                IF zero(tangent) THEN fvsub(q[3], q[1]) ELSE tangent)
      [] s.kind = "Cubic" ->
            Let(flerp(flerp(fvsub(q[2], q[1]), fvsub(q[3], q[2]), t),
                      flerp(fvsub(q[3], q[2]), fvsub(q[4], q[3]), t), t),
                LAMBDA tangent :
                IF zero(tangent)
                THEN (IF feq(t, FZero(0)) THEN fvsub(q[3], q[1])
                      ELSE IF feq(t, F32_ONE) THEN fvsub(q[4], q[2]) ELSE tangent)
                ELSE tangent)

\* get_perpendicular_distance: [modified, distance]
get_perpendicular_distance(distance, ep, edge_dir) ==
    Let(fcross(ep, edge_dir), LAMBDA perp_distance :
        IF flt(FZero(0), fdot(ep, edge_dir)) /\ flt(fabs(perp_distance), fabs(distance))
        THEN [modified |-> TRUE, distance |-> perp_distance]
        ELSE [modified |-> FALSE, distance |-> distance])

\* the part of add_edge after the true distance: the perpendicular distances it
\* hands to add_edge_perp_distance, in order
perp_candidates(point, prev_edge, edge, next_edge, dist) ==
    Let(fvsub(point, fsample(edge.segment, FZero(0))), LAMBDA ap :
    Let(fvsub(point, fsample(edge.segment, F32_ONE)), LAMBDA bp :
    Let(fnormalize(fdirection(edge.segment, FZero(0))), LAMBDA a_dir :
    Let(fnormalize(fdirection(edge.segment, F32_ONE)), LAMBDA b_dir :
    Let(fdirection(prev_edge.segment, F32_ONE), LAMBDA prev_dir :
    Let(fdirection(next_edge.segment, FZero(0)), LAMBDA next_dir :
    Let(fdot(ap, fnormalize(fvadd(prev_dir, a_dir))), LAMBDA add :
    Let(fneg(fdot(bp, fnormalize(fvadd(b_dir, next_dir)))), LAMBDA bdd :
    Let(get_perpendicular_distance(dist, ap, fvneg(a_dir)), LAMBDA ga :
    Let(get_perpendicular_distance(dist, bp, b_dir), LAMBDA gb :
        (IF flt(FZero(0), add) /\ ga.modified THEN <<fneg(ga.distance)>> ELSE <<>>)
        \o (IF flt(FZero(0), bdd) /\ gb.modified THEN <<gb.distance>> ELSE <<>>)
    ))))))))))

RECURSIVE add_perp_distances(_, _)
add_perp_distances(self, pds) ==
    IF pds = <<>> THEN self
    ELSE add_perp_distances(add_edge_perp_distance(self, Head(pds)), Tail(pds))

\* PerpEdgeSelector::add_edge
PerpEdgeSelector_add_edge(self, point, prev_edge, edge, next_edge) ==
    Let(signed_distance(edge.segment, point), LAMBDA sd :
        add_perp_distances(add_edge_true_distance(self, edge, sd.dist, sd.t),
                           perp_candidates(point, prev_edge, edge, next_edge,
                                           sd.dist.dist)))

\* PerpEdgeSelector::distance
PerpEdgeSelector_distance(self) ==
    IF flt(self.min_true_distance.dist, FZero(0))
    THEN self.min_negative_perp_dist
    ELSE self.min_positive_perp_dist

\* PerpEdgeSelector::true_distance
true_distance(self) == self.min_true_distance.dist

(***************************************************************************)
(* one_shot_distance, one step per loop iteration.  shot holds the shape,   *)
(* the point, the loop position (contour c, next edge k, the indices prev    *)
(* and cur of prev_edge and cur_edge) and the log of the add_edge calls;     *)
(* sel is the selector.                                                      *)
(***************************************************************************)
\* prev_edge before the first iteration over a contour of n edges (an index)
first_prev_last(n) == n

first_prev(n) == IF n >= 2 THEN n - 1 ELSE 1

\* cur_edge before the first iteration: the last edge
first_cur(n) == n

Polygon(pts) == [k \in 1..Len(pts) |-> white_edge(Line(pts[k], pts[(k % Len(pts)) + 1]))]

OpenLine == <<white_edge(Line(<<0, 0>>, <<216, 0>>))>>

TwoEdges == Polygon(<<<<0, 0>>, <<216, 0>>>>)

Triangle == Polygon(<<<<0, 0>>, <<216, 0>>, <<0, 216>>>>)

\* the shapes evaluated, coloured as generate_mtsdf colours them
ShotOutlines ==
    {<<>>, <<<<>>>>, <<OpenLine>>, <<TwoEdges>>, <<Triangle>>,
     <<SquareContour>>, <<<<>>, OpenLine, SquareContour>>,
     <<Triangle, <<>>, TwoEdges>>}

ShotShapes == {color_edges(cts, <<1, 1>>, 0).contours : cts \in ShotOutlines}

ShotPoints == {FVec(<<x, y>>) : x, y \in {-108, 108, 324}}

InitShot ==
    /\ outline = <<>>
    /\ NoGlyph
    /\ tri = NoTri
    /\ call = NoSel
    /\ query = NoSel /\ ras = NoSel /\ mt = NoSel /\ col = NoSel
    /\ sel = PerpEdgeSelector_new
    /\ \E raw \in ShotOutlines, p \in ShotPoints :
          shot = [on |-> TRUE, phase |-> "contours", raw |-> raw,
                  shape |-> color_edges(raw, <<1, 1>>, 0).contours, p |-> p,
                  c |-> 0, k |-> 0, prev |-> 0, cur |-> 0, calls |-> <<>>]

ShotRest == <<outline, contours, current, cur_pos, coloured, corners, wind, tri, call,
              query, ras, mt, col>>

\* for c in &shape.contours: if c.edges.is_empty() { continue }
SkipEmptyContour ==
    /\ shot.on /\ shot.phase = "contours" /\ shot.c < Len(shot.shape)
    /\ shot.shape[shot.c + 1] = <<>>
    /\ shot' = [shot EXCEPT !.c = shot.c + 1]
    /\ UNCHANGED <<sel, ShotRest>>

\* a non-empty contour: prev_edge and cur_edge are set before its loop
EnterContour ==
    /\ shot.on /\ shot.phase = "contours" /\ shot.c < Len(shot.shape)
    /\ shot.shape[shot.c + 1] # <<>>
    /\ \E n \in {Len(shot.shape[shot.c + 1])} :
          shot' = [shot EXCEPT !.c = shot.c + 1, !.phase = "edges", !.k = 1,
                               !.prev = first_prev(n), !.cur = first_cur(n)]
    /\ UNCHANGED <<sel, ShotRest>>

\* one iteration of  for next_edge in &c.edges
LoopAddEdge ==
    /\ shot.on /\ shot.phase = "edges"
    /\ \E e \in {shot.shape[shot.c]} :
          /\ sel' = PerpEdgeSelector_add_edge(sel, shot.p, e[shot.prev], e[shot.cur],
                                              e[shot.k])
          /\ shot' = [shot EXCEPT
                        !.calls = Append(shot.calls,
                                         [c |-> shot.c, prev |-> shot.prev,
                                          cur |-> shot.cur, next |-> shot.k]),
                        !.prev = shot.cur,
                        !.cur = shot.k,
                        !.k = shot.k + 1,
                        !.phase = IF shot.k = Len(e) THEN "contours" ELSE "edges"]
    /\ UNCHANGED ShotRest

\* after the loops: selector.distance(p) on all three channels, a = 1.0
ShotDistance ==
    /\ shot.on /\ shot.phase = "contours" /\ shot.c = Len(shot.shape)
    /\ \E d \in {PerpEdgeSelector_distance(sel)} :
          shot' = [shot EXCEPT !.phase = "done",
                               !.calls = Append(shot.calls,
                                                [c |-> 0, r |-> d, g |-> d, b |-> d,
                                                 a |-> F32_ONE])]
    /\ UNCHANGED <<sel, ShotRest>>

NextShot ==
    \/ SkipEmptyContour
    \/ EnterContour
    \/ LoopAddEdge
    \/ ShotDistance

SpecShot == InitShot /\ [][NextShot]_vars

\* the add_edge calls made so far for contour ci
CallsOf(ci) == SelectSeq(shot.calls, LAMBDA x : x.c = ci)

\* the loop over contour ci has run to its end (or skipped it)
ContourDone(ci) == ci < shot.c \/ (ci = shot.c /\ shot.phase # "edges")

\* C18: for every contour of n edges the loop calls add_edge exactly n times,
\* once with each edge e[i] as the current edge, and in that call prev_edge is
\* e[(i-1) mod n] and next_edge is e[(i+1) mod n] (all three e[0] when n = 1);
\* an empty contour causes no call.  (Indices are 1-based here.)
C18_CyclicNeighbours ==
    shot.on =>
      \A ci \in 1..Len(shot.shape) :
         \E n \in {Len(shot.shape[ci])} :
            /\ \A j \in 1..Len(CallsOf(ci)) :
                  \E x \in {CallsOf(ci)[j]} :
                     /\ x.cur \in 1..n
                     /\ x.prev = ((x.cur + n - 2) % n) + 1
                     /\ x.next = (x.cur % n) + 1
            /\ ContourDone(ci) =>
                  /\ Len(CallsOf(ci)) = n
                  /\ \A i \in 1..n :
                        Cardinality({j \in 1..n : CallsOf(ci)[j].cur = i}) = 1

C18_Witness ==
    /\ shot.on /\ shot.phase = "done"
    /\ Len(shot.shape) = 3
    /\ shot.shape[1] = <<>> /\ Len(shot.shape[2]) = 1 /\ Len(shot.shape[3]) = 4
    /\ Len(shot.calls) = 6

(***************************************************************************)
(* MTEdgeSelector: one PerpEdgeSelector per channel.  mt holds the three    *)
(* channels, the query point and the contour whose edges are added, and, for *)
(* the last add_edge call, the selector as it was before the call, the edge  *)
(* and what the call computed; added is the set of edges added so far with   *)
(* their signed distances and parameters.                                    *)
(***************************************************************************)
Channels == <<RED, GREEN, BLUE>>

\* Color::contains (bitflags)
contains(color, bit) == BitAnd(color, bit) = bit

\* if edge.color.contains(X) { self.x.add_edge_true_distance(edge, dist, t) }
channel_true_distance_any(chan, bit, edge, dist, t) ==
    add_edge_true_distance(chan, edge, dist, t)

channel_true_distance(chan, bit, edge, dist, t) ==
    IF contains(edge.color, bit) THEN add_edge_true_distance(chan, edge, dist, t) ELSE chan

\* if edge.color.contains(X) { self.x.add_edge_perp_distance(pd) }, for each pd
channel_perp_distances_any(chan, bit, edge, pds) ==
    add_perp_distances(chan, pds)

channel_perp_distances(chan, bit, edge, pds) ==
    IF contains(edge.color, bit) THEN add_perp_distances(chan, pds) ELSE chan

MTEdgeSelector_new == <<PerpEdgeSelector_new, PerpEdgeSelector_new, PerpEdgeSelector_new>>

\* MTEdgeSelector::add_edge on the channels <<r, g, b>>
MTEdgeSelector_add_edge(self, point, prev_edge, edge, next_edge) ==
    Let(signed_distance(edge.segment, point), LAMBDA sd :
    Let(perp_candidates(point, prev_edge, edge, next_edge, sd.dist.dist), LAMBDA pds :
        [x \in 1..3 |->
            channel_perp_distances(
                channel_true_distance(self[x], Channels[x], edge, sd.dist, sd.t),
                Channels[x], edge, pds)]))

\* MTEdgeSelector::distance
MTEdgeSelector_distance(self) ==
    [r |-> PerpEdgeSelector_distance(self[1]),
     g |-> PerpEdgeSelector_distance(self[2]),
     b |-> PerpEdgeSelector_distance(self[3]),
     a |-> fmin(fmin(true_distance(self[1]), true_distance(self[2])),
                true_distance(self[3]))]

\* the contours whose edges are added
MTContours == (UNION {{sh[i] : i \in DOMAIN sh} : sh \in ShotShapes}) \ {<<>>}

InitMT ==
    /\ outline = <<>>
    /\ NoGlyph
    /\ tri = NoTri
    /\ sel = NoSel
    /\ call = NoSel
    /\ query = NoSel /\ shot = NoSel /\ ras = NoSel /\ col = NoSel
    /\ \E e \in MTContours, p \in ShotPoints :
          mt = [on |-> TRUE, op |-> "new", sel |-> MTEdgeSelector_new, p |-> p,
                edges |-> e, before |-> MTEdgeSelector_new, added |-> {}]

MTRest == <<outline, contours, current, cur_pos, coloured, corners, wind, tri, sel, call,
            query, shot, ras, col>>

\* selector.add_edge(p, prev_edge, edge, next_edge) for an edge of the contour
\* and its neighbours
MTAddEdge ==
    /\ mt.on
    /\ \E i \in 1..Len(mt.edges) :
          \E n \in {Len(mt.edges)} :
          \E prev_edge \in {mt.edges[((i + n - 2) % n) + 1]}, edge \in {mt.edges[i]},
             next_edge \in {mt.edges[(i % n) + 1]} :
          \E sd \in {signed_distance(edge.segment, mt.p)} :
             mt' = [on |-> TRUE, op |-> "add_edge", p |-> mt.p, edges |-> mt.edges,
                    sel |-> MTEdgeSelector_add_edge(mt.sel, mt.p, prev_edge, edge, next_edge),
                    before |-> mt.sel,
                    edge |-> edge,
                    pds |-> perp_candidates(mt.p, prev_edge, edge, next_edge, sd.dist.dist),
                    added |-> mt.added \cup {[edge |-> edge, dist |-> sd.dist, t |-> sd.t]}]
    /\ UNCHANGED MTRest

\* selector.distance(p)
MTDistance ==
    /\ mt.on /\ mt.op # "distance"
    /\ mt' = [on |-> TRUE, op |-> "distance", p |-> mt.p, edges |-> mt.edges,
              sel |-> mt.sel, before |-> mt.sel, added |-> mt.added,
              result |-> MTEdgeSelector_distance(mt.sel)]
    /\ UNCHANGED MTRest

NextMT ==
    \/ MTAddEdge
    \/ MTDistance

SpecMT == InitMT /\ [][NextMT]_vars

\* the edges added so far whose colour mask contains channel x
AddedTo(x) == {a \in mt.added : contains(a.edge.color, Channels[x])}

\* C15: after any sequence of MTEdgeSelector::add_edge calls the true distance
\* recorded for channel X is the minimum, in the SignedDistance order, over
\* exactly the edges whose colour mask contains X (the initial f32::MAX record
\* when there is none), and a call with an edge whose mask lacks X leaves X's
\* min_true_distance, near_edge and near_edge_t unchanged.
C15_ChannelTrueDistance ==
    mt.on =>
      \A x \in 1..3 :
         /\ \A a \in AddedTo(x) : ~SignedDistanceLt(a.dist, mt.sel[x].min_true_distance)
         /\ IF AddedTo(x) = {}
            THEN /\ mt.sel[x].min_true_distance = PerpEdgeSelector_new.min_true_distance
                 /\ mt.sel[x].near_edge = None
            ELSE \E a \in AddedTo(x) :
                    /\ mt.sel[x].min_true_distance = a.dist
                    /\ mt.sel[x].near_edge = Some(a.edge)
                    /\ mt.sel[x].near_edge_t = a.t
         /\ (mt.op = "add_edge" /\ ~contains(mt.edge.color, Channels[x])) =>
               /\ mt.sel[x].min_true_distance = mt.before[x].min_true_distance
               /\ mt.sel[x].near_edge = mt.before[x].near_edge
               /\ mt.sel[x].near_edge_t = mt.before[x].near_edge_t

\* an edge lacking a channel was added although it is nearer than that channel's
\* recorded edge, and the channel kept its record
C15_Witness ==
    /\ mt.on /\ mt.op = "add_edge"
    /\ \E x \in 1..3 :
          /\ ~contains(mt.edge.color, Channels[x])
          /\ AddedTo(x) # {}
          /\ \E a \in mt.added :
                a.edge = mt.edge /\ SignedDistanceLt(a.dist, mt.sel[x].min_true_distance)

\* the two pseudo-distance extrema of a channel
Extrema(chan) == <<chan.min_negative_perp_dist, chan.min_positive_perp_dist>>

\* the last add_edge call computed a valid perpendicular candidate
CandidateAdded == mt.on /\ mt.op = "add_edge" /\ mt.pds # <<>>

\* C16 as stated: a valid perpendicular pseudo-distance candidate computed for
\* an edge updates the extrema of all three channels, whether or not the edge's
\* colour mask contains the channel.
C16_PerpAllChannels ==
    CandidateAdded =>
      \A x \in 1..3 :
         Extrema(mt.sel[x]) = Extrema(add_perp_distances(mt.before[x], mt.pds))

\* C16: a valid perpendicular pseudo-distance candidate computed for an edge
\* updates the extrema of exactly the channels in the edge's colour mask; the
\* extrema of a channel the mask lacks stay as they were.
C16_PerpMaskedChannels ==
    CandidateAdded =>
      \A x \in 1..3 :
         Extrema(mt.sel[x]) =
            IF contains(mt.edge.color, Channels[x])
            THEN Extrema(add_perp_distances(mt.before[x], mt.pds))
            ELSE Extrema(mt.before[x])

\* a candidate that improves the extrema of a channel in the mask and would
\* have improved those of a channel outside it
C16_Witness ==
    /\ CandidateAdded
    /\ \E x, y \in 1..3 :
          /\ contains(mt.edge.color, Channels[x])
          /\ Extrema(mt.sel[x]) # Extrema(mt.before[x])
          /\ ~contains(mt.edge.color, Channels[y])
          /\ Extrema(add_perp_distances(mt.before[y], mt.pds)) # Extrema(mt.before[y])

\* C14: the alpha component of the MultiDistance is the true distance of least
\* magnitude among the three channels' true distances, whatever their signs.
C14_AlphaMinMagnitude ==
    (mt.on /\ mt.op = "distance") =>
      /\ \E x \in 1..3 : feq(fabs(mt.result.a), fabs(true_distance(mt.sel[x])))
      /\ \A x \in 1..3 : fle(fabs(mt.result.a), fabs(true_distance(mt.sel[x])))

(***************************************************************************)
(* ColouredShape::generate_mtsdf (render.rs): the pixel loop and the edge   *)
(* overlay loop, one put_pixel per step.  ras holds the inputs (shape,      *)
(* bounds, width, height, offsets), the loop position, the image, and for    *)
(* every pixel the number of put_pixel calls it received and the value the   *)
(* pixel loop computed for it.                                               *)
(***************************************************************************)
MaxSize == 2    \* width and height of the glyph's image are in 1..MaxSize

OverlaySteps == 50

\* f32::clamp(self, min, max) for min <= max
fclamp(a, lo, hi) == IF flt(a, lo) THEN lo ELSE IF flt(hi, a) THEN hi ELSE a

\* `as u32` on an f32: truncates, saturates, NaN gives 0.  Results of 2^31 and
\* more, u32::MAX included, are all represented by 2^31 - 1; the image
\* dimensions they are compared with are far below.
f32_as_u32(a) ==
    IF a.k = "nan" \/ a.s = 1 THEN 0
    ELSE IF a.k = "inf" \/ a.e >= 8 THEN 2147483647
    ELSE IF a.e >= 0 THEN a.m * 2^a.e
    ELSE IF a.e < -24 THEN 0
    ELSE a.m \div 2^(-a.e)

RECURSIVE one_shot_edges(_, _, _, _, _, _)
one_shot_edges(selector, p, e, prev, cur, k) ==
    IF k > Len(e) THEN selector
    ELSE Let(PerpEdgeSelector_add_edge(selector, p, e[prev], e[cur], e[k]),
             LAMBDA added : one_shot_edges(added, p, e, cur, k, k + 1))

RECURSIVE one_shot_contours(_, _, _, _)
one_shot_contours(selector, p, shape, c) ==
    IF c > Len(shape) THEN selector
    ELSE IF shape[c] = <<>> THEN one_shot_contours(selector, p, shape, c + 1)
    ELSE Let(one_shot_edges(selector, p, shape[c], first_prev(Len(shape[c])),
                            first_cur(Len(shape[c])), 1),
             LAMBDA added : one_shot_contours(added, p, shape, c + 1))

\* one_shot_distance(shape, p): the MultiDistance
one_shot_distance(shape, p) ==
    Let(PerpEdgeSelector_distance(one_shot_contours(PerpEdgeSelector_new, p, shape, 1)),
        LAMBDA d : [r |-> d, g |-> d, b |-> d, a |-> F32_ONE])

\* the Rect that Shape::from_glyph stores with the contours
Rect(x_min, y_min, x_max, y_max) ==
    [x_min |-> x_min, y_min |-> y_min, x_max |-> x_max, y_max |-> y_max]

ShiftedTriangle == Polygon(<<<<216, 216>>, <<432, 216>>, <<216, 432>>>>)

\* the coloured shapes rasterized: contours and bounding box
RasterShapes ==
    {[contours |-> color_edges(<<SquareContour>>, <<1, 1>>, 0).contours,
      bounds |-> Rect(0, 0, 216, 216)],
     [contours |-> color_edges(<<<<>>, ShiftedTriangle>>, <<1, 1>>, 0).contours,
      bounds |-> Rect(216, 216, 432, 432)],
     [contours |-> color_edges(<<Triangle>>, <<1, 1>>, 0).contours,
      bounds |-> Rect(54, 54, 108, 108)],
     [contours |-> color_edges(<<TwoEdges>>, <<1, 1>>, 0).contours,
      bounds |-> Rect(0, 0, 216, 0)]}

\* where the glyph is placed in the image
Offsets == {<<0, 0>>, <<1, 2>>}

\* units per em of the font the glyph comes from
UnitsPerEm == {50, 1000}

glyph_width(self) == fsub(FInt(self.bounds.x_max), FInt(self.bounds.x_min))

glyph_height(self) == fsub(FInt(self.bounds.y_max), FInt(self.bounds.y_min))

\* the closure image_pixel_to_face
image_pixel_to_face(self, width, height, x, y) ==
    <<fadd(fadd(FInt(self.bounds.x_min),
                fmul(fdiv(FInt(x), FInt(width)), glyph_width(self))), F32_HALF),
      fadd(fadd(FInt(self.bounds.y_min),
                fmul(fsub(F32_ONE, fdiv(FInt(y), FInt(height))), glyph_height(self))),
           F32_HALF)>>

\* variant: the two coordinates are converted without the clamp
face_pixel_to_image_unclamped(self, width, height, p) ==
    LET x == fmul(FInt(width),
                  fdiv(fsub(fsub(p[1], F32_HALF), FInt(self.bounds.x_min)),
                       glyph_width(self)))
        y == fmul(FInt(height),
                  fsub(F32_ONE,
                       fdiv(fsub(fsub(p[2], F32_HALF), FInt(self.bounds.y_min)),
                            glyph_height(self))))
    IN  <<f32_as_u32(x), f32_as_u32(y)>>

\* the closure face_pixel_to_image
face_pixel_to_image(self, width, height, p) ==
    LET x == fmul(FInt(width),
                  fdiv(fsub(fsub(p[1], F32_HALF), FInt(self.bounds.x_min)),
                       glyph_width(self)))
        y == fmul(FInt(height),
                  fsub(F32_ONE,
                       fdiv(fsub(fsub(p[2], F32_HALF), FInt(self.bounds.y_min)),
                            glyph_height(self))))
    IN  <<f32_as_u32(fclamp(x, FZero(0), fsub(FInt(width), F32_ONE))),
          f32_as_u32(fclamp(y, FZero(0), fsub(FInt(height), F32_ONE)))>>

\* d.r/100.0 + 0.5
normalized(d) == fadd(fdiv(d, FInt(100)), F32_HALF)

\* the pixel the pixel loop writes for the MultiDistance d
distance_pixel(d) == <<normalized(d.r), normalized(d.g), normalized(d.b), F32_ONE>>

\* the pixel the overlay loop writes for an edge
mask_pixel(e) ==
    <<IF contains(e.color, RED) THEN F32_ONE ELSE FZero(0),
      IF contains(e.color, GREEN) THEN F32_ONE ELSE FZero(0),
      IF contains(e.color, BLUE) THEN F32_ONE ELSE FZero(0),
      F32_ONE>>

\* the first non-empty contour from c on, Len + 1 when there is none
NextContour(cts, c) ==
    IF \E i \in c..Len(cts) : cts[i] # <<>>
    THEN CHOOSE i \in c..Len(cts) : cts[i] # <<>> /\ \A j \in c..(i - 1) : cts[j] = <<>>
    ELSE Len(cts) + 1

Pixels(width, height) == (0..(width - 1)) \X (0..(height - 1))

InitRaster ==
    /\ outline = <<>>
    /\ NoGlyph
    /\ tri = NoTri
    /\ sel = NoSel
    /\ call = NoSel
    /\ query = NoSel /\ shot = NoSel /\ mt = NoSel /\ col = NoSel
    /\ \E self \in RasterShapes, width \in 1..MaxSize, height \in 1..MaxSize,
          off \in Offsets, upem \in UnitsPerEm :
          ras = [on |-> TRUE, phase |-> "pixels", self |-> self, width |-> width,
                 height |-> height, off |-> off, units_per_em |-> upem,
                 x |-> 0, y |-> 0, c |-> 0, e |-> 0, t |-> 0, put |-> None,
                 img |-> [q \in Pixels(off[1] + width, off[2] + height) |->
                            <<FZero(0), FZero(0), FZero(0), FZero(0)>>],
                 puts |-> [q \in Pixels(width, height) |-> 0],
                 dist |-> [q \in Pixels(width, height) |-> None]]

RasterRest == <<outline, contours, current, cur_pos, coloured, corners, wind, tri, sel,
                call, query, shot, mt, col>>

\* one iteration of the pixel loop: for y in 0..height { for x in 0..width {..} }
PutDistancePixel ==
    /\ ras.on /\ ras.phase = "pixels"
    /\ \E p \in {image_pixel_to_face(ras.self, ras.width, ras.height, ras.x, ras.y)} :
       \E d \in {one_shot_distance(ras.self.contours, p)} :
       \E last \in {ras.x = ras.width - 1 /\ ras.y = ras.height - 1} :
       \E c \in {NextContour(ras.self.contours, 1)} :
          ras' = [ras EXCEPT
                    !.img[<<ras.off[1] + ras.x, ras.off[2] + ras.y>>] = distance_pixel(d),
                    !.puts[<<ras.x, ras.y>>] = @ + 1,
                    !.put = [some |-> TRUE, loop |-> "pixels", at |-> <<ras.x, ras.y>>,
                             p |-> p],
                    !.dist[<<ras.x, ras.y>>] = Some(d),
                    !.x = IF ras.x = ras.width - 1 THEN 0 ELSE ras.x + 1,
                    !.y = IF ras.x = ras.width - 1 THEN ras.y + 1 ELSE ras.y,
                    !.phase = IF ~last THEN "pixels"
                              ELSE IF c > Len(ras.self.contours) THEN "done"
                              ELSE "overlay",
                    !.c = IF last THEN c ELSE 0,
                    !.e = IF last THEN 1 ELSE 0]
    /\ UNCHANGED RasterRest

\* one iteration of the overlay loop:
\* for c in &self.contours { for e in &c.edges { for t in 0..=50 {..} } }
PutEdgePixel ==
    /\ ras.on /\ ras.phase = "overlay"
    /\ \E e \in {ras.self.contours[ras.c][ras.e]} :
       \E p \in {fsample(e.segment, fdiv(FInt(ras.t), FInt(OverlaySteps)))} :
       \E q \in {face_pixel_to_image(ras.self, ras.width, ras.height, p)} :
       \E c \in {IF ras.t < OverlaySteps \/ ras.e < Len(ras.self.contours[ras.c])
                  THEN ras.c ELSE NextContour(ras.self.contours, ras.c + 1)} :
          ras' = [ras EXCEPT
                    !.img[<<ras.off[1] + q[1], ras.off[2] + q[2]>>] = mask_pixel(e),
                    !.puts[q] = @ + 1,
                    !.put = [some |-> TRUE, loop |-> "overlay", at |-> q, p |-> p],
                    !.t = IF ras.t < OverlaySteps THEN ras.t + 1 ELSE 0,
                    !.e = IF ras.t < OverlaySteps THEN ras.e
                          ELSE IF c = ras.c THEN ras.e + 1 ELSE 1,
                    !.c = c,
                    !.phase = IF c > Len(ras.self.contours) THEN "done" ELSE "overlay"]
    /\ UNCHANGED RasterRest

NextRaster ==
    \/ PutDistancePixel
    \/ PutEdgePixel

SpecRaster == InitRaster /\ [][NextRaster]_vars

\* the row-major position of pixel q
RowMajor(q) == q[2] * ras.width + q[1]

\* C11: during one generate_mtsdf call every pixel (x, y) of the width x height
\* glyph is written exactly once, in row-major order, never a second time, so
\* that the value left at every pixel is its normalized distance.
C11_OncePerPixel ==
    ras.on =>
      \A q \in Pixels(ras.width, ras.height) :
         /\ ras.puts[q] <= 1
         /\ ras.phase = "pixels" =>
               ras.puts[q] = (IF RowMajor(q) < RowMajor(<<ras.x, ras.y>>) THEN 1 ELSE 0)
         /\ ras.phase = "done" =>
               /\ ras.puts[q] = 1
               /\ ras.dist[q].some
               /\ ras.img[<<ras.off[1] + q[1], ras.off[2] + q[2]>>] =
                     distance_pixel(ras.dist[q].v)

\* C12: each channel value the pixel loop writes is
\* (distance / units_per_em) / 2 + 0.5 for the font's units per em.
C12_NormalizedByUnitsPerEm ==
    ras.on =>
      \A q \in Pixels(ras.width, ras.height) :
         (ras.phase = "pixels" /\ ras.dist[q].some) =>
            \E d \in {ras.dist[q].v} :
               ras.img[<<ras.off[1] + q[1], ras.off[2] + q[2]>>] =
                  <<fadd(fdiv(fdiv(d.r, FInt(ras.units_per_em)), FInt(2)), F32_HALF),
                    fadd(fdiv(fdiv(d.g, FInt(ras.units_per_em)), FInt(2)), F32_HALF),
                    fadd(fdiv(fdiv(d.b, FInt(ras.units_per_em)), FInt(2)), F32_HALF),
                    F32_ONE>>

(***************************************************************************)
(* split_in_three as a subdivision (segment.rs).  The claim is about exact *)
(* arithmetic, so the control points are multiples of 2 * (3 n)^3 with     *)
(* n = SampleSteps: sampling the whole segment at (k + s)/3 with s a       *)
(* multiple of 1/n divides by 3 n up to three times, the parts have        *)
(* control points that are multiples of n^3 (the middle control point of   *)
(* the second part of a Quad halves a multiple of (3 n)^3 / 9), and        *)
(* sampling a part at s divides by n up to three times, so that every      *)
(* division of lerp is exact.  Both sides of the identity are polynomials  *)
(* of degree at most 3 in s, and s takes SampleSteps + 1 values.           *)
(***************************************************************************)
\* s = sn / SampleSteps
SampleSteps == 4

SplitUnit == 2 * (3 * SampleSteps) * (3 * SampleSteps) * (3 * SampleSteps)

SplitCoords == {0, SplitUnit}

SplitPts == {<<x, y>> : x \in SplitCoords, y \in SplitCoords}

SplitSegments ==
    {Line(a, b) : a \in SplitPts, b \in SplitPts}
    \cup {Quad(a, b, c) : a \in SplitPts, b \in SplitPts, c \in SplitPts}
    \cup {Cubic(a, b, c, d) : a \in SplitPts, b \in SplitPts, c \in SplitPts, d \in SplitPts}

InitSplit ==
    /\ outline = <<>>
    /\ NoGlyph
    /\ tri = NoTri
    /\ sel = NoSel
    /\ call = NoSel
    /\ shot = NoSel /\ ras = NoSel /\ mt = NoSel /\ col = NoSel
    /\ \E s \in SplitSegments : query = [on |-> TRUE, op |-> "new", segment |-> s]

\* let parts = segment.split_in_three(); parts[k].sample(s) against
\* segment.sample((k + s)/3)
SplitInThree ==
    /\ query.on
    /\ \E k \in 0..2, sn \in 0..SampleSteps :
          query' = [on |-> TRUE, op |-> "split_in_three", segment |-> query.segment,
                    parts |-> split_in_three(query.segment), k |-> k, sn |-> sn,
                    part_at |-> sample(split_in_three(query.segment)[k + 1], sn, SampleSteps),
                    whole_at |-> sample(query.segment, SampleSteps * k + sn, 3 * SampleSteps)]
    /\ UNCHANGED <<outline, contours, current, cur_pos, coloured, corners, wind, tri, sel,
                   call, shot, ras, mt, col>>

NextSplit == SplitInThree

SpecSplit == InitSplit /\ [][NextSplit]_vars

\* C21: split_in_three is an exact subdivision: the three parts have the
\* variant of the whole segment S, part k sampled at s is S sampled at
\* (k + s)/3, the first part starts where S starts, the last part ends where
\* S ends, and each part ends where the next one starts.
C21_ExactSubdivision ==
    query.on /\ query.op = "split_in_three" =>
        /\ \A i \in 1..3 : query.parts[i].kind = query.segment.kind
        /\ query.part_at = query.whole_at
        /\ sample(query.parts[1], 0, 1) = sample(query.segment, 0, 1)
        /\ sample(query.parts[3], 1, 1) = sample(query.segment, 1, 1)
        /\ \A i \in 1..2 : sample(query.parts[i], 1, 1) = sample(query.parts[i + 1], 0, 1)

\* a curved cubic whose middle part is sampled strictly inside
C21_Witness ==
    /\ query.on /\ query.op = "split_in_three"
    /\ query.segment = Cubic(<<0, 0>>, <<0, SplitUnit>>, <<SplitUnit, SplitUnit>>, <<SplitUnit, 0>>)
    /\ query.k = 1 /\ query.sn = 1
    /\ query.part_at = query.whole_at
    /\ query.part_at # sample(query.segment, 1, 3)

(***************************************************************************)
(* Segment::distance_to_perp_dist (segment.rs), in f32.                    *)
(***************************************************************************)
\* the pseudo-distance replaces dist whatever its magnitude
distance_to_perp_dist_unchecked(s, dist, p, t) ==
    IF flt(t, FZero(0))
    THEN Let(fnormalize(fdirection(s, FZero(0))), LAMBDA dir :
         Let(fvsub(p, fsample(s, FZero(0))), LAMBDA aq :
             IF flt(fdot(aq, dir), FZero(0))
             THEN SignedDistance(fcross(aq, dir), FZero(0))
             ELSE dist))
    ELSE IF flt(F32_ONE, t)
    THEN Let(fnormalize(fdirection(s, F32_ONE)), LAMBDA dir :
         Let(fvsub(p, fsample(s, F32_ONE)), LAMBDA bq :
             IF flt(FZero(0), fdot(bq, dir))
             THEN SignedDistance(fcross(bq, dir), FZero(0))
             ELSE dist))
    ELSE dist

distance_to_perp_dist(s, dist, p, t) ==
    IF flt(t, FZero(0))
    THEN Let(fnormalize(fdirection(s, FZero(0))), LAMBDA dir :
         Let(fvsub(p, fsample(s, FZero(0))), LAMBDA aq :
         Let(fcross(aq, dir), LAMBDA perp_dist :
             IF flt(fdot(aq, dir), FZero(0)) /\ fle(fabs(perp_dist), fabs(dist.dist))
             THEN SignedDistance(perp_dist, FZero(0))
             ELSE dist)))
    ELSE IF flt(F32_ONE, t)
    THEN Let(fnormalize(fdirection(s, F32_ONE)), LAMBDA dir :
         Let(fvsub(p, fsample(s, F32_ONE)), LAMBDA bq :
         Let(fcross(bq, dir), LAMBDA perp_dist :
             IF flt(FZero(0), fdot(bq, dir)) /\ fle(fabs(perp_dist), fabs(dist.dist))
             THEN SignedDistance(perp_dist, FZero(0))
             ELSE dist)))
    ELSE dist

\* the segments handed to distance_to_perp_dist: lines (one of them with equal
\* end points), a Quad and a Cubic
PseudoSegments ==
    {Line(<<1, 1>>, <<5, 1>>), Line(<<2, 5>>, <<5, 2>>), Line(<<3, 3>>, <<3, 3>>),
     Quad(<<1, 1>>, <<3, 6>>, <<6, 2>>), Cubic(<<1, 2>>, <<1, 2>>, <<4, 6>>, <<6, 3>>)}

\* the parameters: before the start, inside, after the end, not a number
PseudoTs == {FDyadic(n, 1) : n \in {-2, -1, 0, 1, 2, 3}} \cup {FNaN}

\* the distances found so far, of either sign, and the sentinel
PseudoDists ==
    {SignedDistance(FDyadic(n, 1), F32_HALF) : n \in (-2 * MaxDist)..(2 * MaxDist)}
    \cup {SignedDistance(F32_MAX, FZero(0))}

InitPseudo ==
    /\ outline = <<>>
    /\ NoGlyph
    /\ tri = NoTri
    /\ sel = NoSel
    /\ call = NoSel
    /\ shot = NoSel /\ ras = NoSel /\ mt = NoSel /\ col = NoSel
    /\ \E s \in PseudoSegments, dist \in PseudoDists, pt \in GridPts, t \in PseudoTs :
          query = [on |-> TRUE, op |-> "new", segment |-> s, dist |-> dist,
                   p |-> FVec(pt), t |-> t]

\* segment.distance_to_perp_dist(dist, p, t)
DistanceToPerpDist ==
    /\ query.on /\ query.op = "new"
    /\ \E r \in {distance_to_perp_dist(query.segment, query.dist, query.p, query.t)} :
          query' = [on |-> TRUE, op |-> "distance_to_perp_dist", segment |-> query.segment,
                    dist |-> query.dist, p |-> query.p, t |-> query.t, result |-> r]
    /\ UNCHANGED <<outline, contours, current, cur_pos, coloured, corners, wind, tri, sel,
                   call, shot, ras, mt, col>>

NextPseudo == DistanceToPerpDist

SpecPseudo == InitPseudo /\ [][NextPseudo]_vars

\* C22: distance_to_perp_dist returns dist unchanged whenever 0 <= t <= 1,
\* and for every t, p and dist the magnitude of the returned distance is at
\* most the magnitude of dist.dist.
C22_PseudoNotFarther ==
    query.on /\ query.op = "distance_to_perp_dist" =>
        /\ (fle(FZero(0), query.t) /\ fle(query.t, F32_ONE) => query.result = query.dist)
        /\ fle(fabs(query.result.dist), fabs(query.dist.dist))

\* the pseudo-distance has replaced dist, before the start and after the end
C22_Witness ==
    /\ query.on /\ query.op = "distance_to_perp_dist"
    /\ query.segment.kind = "Quad"
    /\ flt(F32_ONE, query.t)
    /\ query.result # query.dist
    /\ flt(fabs(query.result.dist), fabs(query.dist.dist))

(***************************************************************************)
(* Segment::direction at the two ends of a curve (segment.rs), in f32.     *)
(***************************************************************************)
DirPts == {<<0, 0>>, <<1, 0>>, <<0, 1>>, <<2, 3>>}

\* every Quad and Cubic over DirPts whose first and last control points differ
DirSegments ==
    {s \in {Quad(a, b, c) : a \in DirPts, b \in DirPts, c \in DirPts} : s.p[1] # s.p[3]}
    \cup {s \in {Cubic(a, b, c, d) : a \in DirPts, b \in DirPts, c \in DirPts, d \in DirPts} :
             s.p[1] # s.p[4]}

InitDir ==
    /\ outline = <<>>
    /\ NoGlyph
    /\ tri = NoTri
    /\ sel = NoSel
    /\ call = NoSel
    /\ shot = NoSel /\ ras = NoSel /\ mt = NoSel /\ col = NoSel
    /\ \E s \in DirSegments : query = [on |-> TRUE, op |-> "new", segment |-> s]

\* segment.direction(0.0) and segment.direction(1.0)
Direction ==
    /\ query.on
    /\ \E t \in {FZero(0), F32_ONE} :
          query' = [on |-> TRUE, op |-> "direction", segment |-> query.segment, t |-> t,
                    result |-> fdirection(query.segment, t)]
    /\ UNCHANGED <<outline, contours, current, cur_pos, coloured, corners, wind, tri, sel,
                   call, shot, ras, mt, col>>

NextDir == Direction

SpecDir == InitDir /\ [][NextDir]_vars

\* C23: for every Quad and every Cubic whose first and last control points
\* differ, direction(0) and direction(1) are non-zero vectors, also for a
\* Cubic with three coincident control points.
C23_DirectionNonZero ==
    query.on /\ query.op = "direction" =>
        ~(IsFZero(query.result[1]) /\ IsFZero(query.result[2]))

(***************************************************************************)
(* solve_quadratic and solve_cubic (segment.rs), in f32.  The precision of *)
(* powf, acos and cos is unspecified; the model evaluates them only at the *)
(* arguments where IEEE 754 fixes the result (powf(0, y) = 0 for y > 0,    *)
(* acos(1) = 0, cos(0) = 1) and the inputs of SpecCubic stay within them.  *)
(***************************************************************************)
Unspecified == [k |-> "unspecified"]

fpowf(x, y) == IF IsFZero(x) /\ flt(FZero(0), y) THEN FZero(0) ELSE Unspecified

facos(x) == IF feq(x, F32_ONE) THEN FZero(0) ELSE Unspecified

fcos(x) == IF IsFZero(x) THEN F32_ONE ELSE Unspecified

F32_PI == FNum(0, 13176795, -22)

\* the f32 literals 1e6 and 1e-12
F32_1E6 == FInt(1000000)

F32_1EM12 == FNum(0, 9223372, -63)

F32_THIRD == fdiv(F32_ONE, FInt(3))

\* solve_quadratic: [n, roots]
solve_quadratic(a, b, c) ==
    IF feq(a, FZero(0))
    THEN IF feq(b, FZero(0))
         THEN [n |-> 0, roots |-> <<FZero(0), FZero(0)>>]
         ELSE [n |-> 1, roots |-> <<fdiv(fneg(c), b), FZero(0)>>]
    ELSE Let(fsub(fmul(b, b), fmul(fmul(FInt(4), a), c)), LAMBDA delta :
             IF flt(delta, FZero(0))
             THEN [n |-> 0, roots |-> <<FZero(0), FZero(0)>>]
             ELSE IF feq(delta, FZero(0))
             THEN [n |-> 1, roots |-> <<fdiv(fneg(b), fmul(FInt(2), a)), FZero(0)>>]
             ELSE Let(fsqrt(delta), LAMBDA root :
                      [n |-> 2,
                       roots |-> <<fdiv(fsub(fneg(b), root), fmul(FInt(2), a)),
                                   fdiv(fadd(fneg(b), root), fmul(FInt(2), a))>>]))

\* the branch of solve_cubic taken when r2 < q3 does not hold; a3 is a * (1/3)
solve_cubic_one_or_two(q, r, r2, q3, a3) ==
    Let(fmul(IF flt(r, FZero(0)) THEN F32_ONE ELSE fneg(F32_ONE),
             fpowf(fadd(fabs(r), fsqrt(fsub(r2, q3))), F32_THIRD)), LAMBDA u :
    Let(IF feq(u, FZero(0)) THEN FZero(0) ELSE fdiv(q, u), LAMBDA v :
    Let(fsub(fadd(u, v), a3), LAMBDA first :
        IF feq(u, v) \/ flt(fabs(fsub(u, v)), fmul(F32_1EM12, fabs(fadd(u, v))))
        THEN [n |-> 2,
              roots |-> <<first, fsub(fmul(fneg(F32_HALF), fadd(u, v)), a3), FZero(0)>>]
        ELSE [n |-> 1, roots |-> <<first, FZero(0), FZero(0)>>])))

\* the branch of solve_cubic taken when r2 < q3
solve_cubic_three(q, r, q3, a3) ==
    Let(facos(fclamp(fdiv(r, fsqrt(q3)), fneg(F32_ONE), F32_ONE)), LAMBDA t :
    Let(fmul(FInt(-2), fsqrt(q)), LAMBDA q2 :
        [n |-> 3,
         roots |-> <<fsub(fmul(q2, fcos(fmul(F32_THIRD, t))), a3),
                     fsub(fmul(q2, fcos(fmul(F32_THIRD,
                                             fadd(t, fmul(FInt(2), F32_PI))))), a3),
                     fsub(fmul(q2, fcos(fmul(F32_THIRD,
                                             fsub(t, fmul(FInt(2), F32_PI))))), a3)>>]))

\* solve_cubic: [n, roots].  In the first branch the coefficients a, b, c are
\* used as the source uses them, and d is not read.
solve_cubic(a, b, c, d) ==
    IF ~feq(a, FZero(0)) /\ flt(fabs(fdiv(b, a)), F32_1E6)
    THEN Let(fmul(a, a), LAMBDA a2 :
         Let(fmul(fdiv(F32_ONE, FInt(9)), fsub(a2, fmul(FInt(3), b))), LAMBDA q :
         Let(fmul(fdiv(F32_ONE, FInt(54)),
                  fadd(fmul(a, fsub(fmul(FInt(2), a2), fmul(FInt(9), b))),
                       fmul(FInt(27), c))), LAMBDA r :
         Let(fmul(r, r), LAMBDA r2 :
         Let(fmul(fmul(q, q), q), LAMBDA q3 :
             IF flt(r2, q3)
             THEN solve_cubic_three(q, r, q3, fmul(a, F32_THIRD))
             ELSE solve_cubic_one_or_two(q, r, r2, q3, fmul(a, F32_THIRD)))))))
    ELSE Let(solve_quadratic(b, c, d), LAMBDA s :
             [n |-> s.n, roots |-> <<s.roots[1], s.roots[2], FZero(0)>>])

\* the cubics a X^3 + b X^2 + c X + d with a = 3 k, b = 3 k^2, c = k^3, for
\* which q and r of solve_cubic are exactly zero
TripleKs == {-3, -2, -1, 1, 2, 3}

CubicDs == -10..10

\* |a x^3 + b x^2 + c x + d| is within 2^-10 of the sum of the magnitudes of
\* its terms: x satisfies the equation up to rounding
IsRootUpToRounding(a, b, c, d, x) ==
    Let(fmul(fmul(fmul(a, x), x), x), LAMBDA t3 :
    Let(fmul(fmul(b, x), x), LAMBDA t2 :
    Let(fmul(c, x), LAMBDA t1 :
        fle(fabs(fadd(fadd(fadd(t3, t2), t1), d)),
            fmul(FDyadic(1, 10), fadd(fadd(fadd(fabs(t3), fabs(t2)), fabs(t1)), fabs(d)))))))

InitCubic ==
    /\ outline = <<>>
    /\ NoGlyph
    /\ tri = NoTri
    /\ sel = NoSel
    /\ call = NoSel
    /\ shot = NoSel /\ ras = NoSel /\ mt = NoSel /\ col = NoSel
    /\ \E k \in TripleKs, d \in CubicDs :
          query = [on |-> TRUE, op |-> "new", a |-> FInt(3 * k), b |-> FInt(3 * k * k),
                   c |-> FInt(k * k * k), d |-> FInt(d)]

\* let (n, roots) = solve_cubic(a, b, c, d)
SolveCubic ==
    /\ query.on /\ query.op = "new"
    /\ \E r \in {solve_cubic(query.a, query.b, query.c, query.d)} :
          query' = [on |-> TRUE, op |-> "solve_cubic", a |-> query.a, b |-> query.b,
                    c |-> query.c, d |-> query.d, n |-> r.n, roots |-> r.roots]
    /\ UNCHANGED <<outline, contours, current, cur_pos, coloured, corners, wind, tri, sel,
                   call, shot, ras, mt, col>>

NextCubic == SolveCubic

SpecCubic == InitCubic /\ [][NextCubic]_vars

\* C24: for a # 0 and |b/a| < 1e6, every root x returned by
\* solve_cubic(a, b, c, d) satisfies a x^3 + b x^2 + c x + d = 0 up to
\* rounding.
C24_RootsSolveEquation ==
    query.on /\ query.op = "solve_cubic" =>
        \A i \in 1..query.n :
            IsRootUpToRounding(query.a, query.b, query.c, query.d, query.roots[i])

(***************************************************************************)
(* Empty contours (shape.rs, render.rs): color_edges and one_shot_distance *)
(* both `continue` on a contour without edges.                             *)
(***************************************************************************)
NonEmpty(cts) == SelectSeq(cts, LAMBDA c : c # <<>>)

\* color_edges gives the other contours, the final colour and the final seed
\* that it gives without the empty contours, and leaves the empty ones empty
ColouredAsWithout(cts, threshold, seed) ==
    \E r \in {color_edges(cts, threshold, seed)} :
    \E q \in {color_edges(NonEmpty(cts), threshold, seed)} :
        /\ Len(r.contours) = Len(cts)
        /\ \A i \in 1..Len(cts) : cts[i] = <<>> => r.contours[i] = <<>>
        /\ NonEmpty(r.contours) = q.contours
        /\ r.color = q.color
        /\ r.seed = q.seed

\* C25: empty contours are skipped: color_edges leaves an empty contour
\* empty and does not advance the colour or the seed for it, and the distance
\* evaluated for a shape is the distance of the shape without its empty
\* contours.
C25_EmptyContoursSkipped ==
    shot.on /\ shot.phase = "done" =>
        /\ \A seed \in 0..MaxSeed, threshold \in Thresholds :
              ColouredAsWithout(shot.raw, threshold, seed)
        /\ shot.calls[Len(shot.calls)].r
              = one_shot_distance(NonEmpty(shot.shape), shot.p).r

\* an empty contour between two contours whose edges were all added
C25_Witness ==
    /\ shot.on /\ shot.phase = "done"
    /\ shot.raw = <<Triangle, <<>>, TwoEdges>>
    /\ shot.shape[2] = <<>>
    /\ Len(shot.calls) = Len(shot.shape[1]) + Len(shot.shape[3]) + 1

(***************************************************************************)
(* The colours on the two sides of a detected corner, checked under Spec.  *)
(***************************************************************************)
\* the coloured edges that meet at corner k of contour i: <<before, after>>.
\* A teardrop of one or two edges is rebuilt from its corner, so that its
\* corner lies between its last and its first edge.
CornerJoin(i, k) ==
    IF NumCorners(i) = 1 /\ Len(contours[i]) <= 2
    THEN <<Len(coloured.contours[i]), 1>>
    ELSE <<((corners[i][k] + Len(contours[i]) - 1) % Len(contours[i])) + 1,
           corners[i][k] + 1>>

\* C26: in every contour with at least one detected corner, for every seed,
\* the two edges meeting at each detected corner carry two different colours
\* among Cyan, Magenta and Yellow, which therefore share exactly one channel.
C26_CornerColours ==
    \A i \in 1..Len(contours) :
        (Coloured(i) /\ NumCorners(i) >= 1) =>
            \A k \in 1..NumCorners(i) :
                \E j \in {CornerJoin(i, k)} :
                \E before \in {coloured.contours[i][j[1]].color} :
                \E after \in {coloured.contours[i][j[2]].color} :
                    /\ before \in TwoChannel
                    /\ after \in TwoChannel
                    /\ before # after
                    /\ BitAnd(before, after) \in {RED, GREEN, BLUE}

\* a teardrop of two edges, split in six, whose corner lies between the last
\* part, of the colour after the second switch, and the first part, of the colour
\* after the first switch
C26_Witness ==
    \E i \in 1..Len(contours) :
        /\ Coloured(i) /\ NumCorners(i) = 1 /\ Len(contours[i]) = 2
        /\ CornerJoin(i, 1) = <<6, 1>>
        /\ coloured.contours[i][6].color # coloured.contours[i][1].color
        /\ coloured.contours[i][3].color = WHITE

\* C27: once at least one edge has been added with add_edge, the magnitude of
\* PerpEdgeSelector::distance is at most the magnitude of the minimum true
\* distance; in particular it is never the sentinel f32::MAX or f32::MIN.
C27_DistanceBounded ==
    (shot.on /\ shot.phase = "done" /\ Len(shot.calls) >= 2) =>
        \E d \in {shot.calls[Len(shot.calls)].r} :
            /\ fle(fabs(d), fabs(true_distance(sel)))
            /\ fabs(d) # F32_MAX

(***************************************************************************)
(* PerpEdgeSelector::merge (render.rs).  Two selectors are filled          *)
(* independently, self in sel and other in query.other, and other is       *)
(* merged into self.                                                       *)
(***************************************************************************)
\* variant: self takes every field of other
merge_overwrite(self, other) == other

\* PerpEdgeSelector::merge
merge(self, other) ==
    [on |-> TRUE,
     min_true_distance |->
        IF SignedDistanceLt(other.min_true_distance, self.min_true_distance)
        THEN other.min_true_distance ELSE self.min_true_distance,
     near_edge |->
        IF SignedDistanceLt(other.min_true_distance, self.min_true_distance)
        THEN other.near_edge ELSE self.near_edge,
     near_edge_t |->
        IF SignedDistanceLt(other.min_true_distance, self.min_true_distance)
        THEN other.near_edge_t ELSE self.near_edge_t,
     min_negative_perp_dist |->
        IF flt(self.min_negative_perp_dist, other.min_negative_perp_dist)
        THEN other.min_negative_perp_dist ELSE self.min_negative_perp_dist,
     min_positive_perp_dist |->
        IF flt(other.min_positive_perp_dist, self.min_positive_perp_dist)
        THEN other.min_positive_perp_dist ELSE self.min_positive_perp_dist]

\* the true distances and perpendicular distances offered to the two selectors
MergeDists ==
    {SignedDistance(FInt(d), FDyadic(c, 1)) : d \in {-2, -1, 1, 2}, c \in {0, 1}}

MergePerpDists == {FInt(d) : d \in {-2, -1, 0, 1, 2}}

MergeEdge == colored(Line(<<0, 0>>, <<216, 0>>), CYAN)

OtherEdge == colored(Line(<<216, 0>>, <<216, 216>>), YELLOW)

InitMerge ==
    /\ outline = <<>>
    /\ NoGlyph
    /\ tri = NoTri
    /\ shot = NoSel /\ ras = NoSel /\ mt = NoSel /\ col = NoSel
    /\ sel = PerpEdgeSelector_new
    /\ query = [on |-> TRUE, other |-> PerpEdgeSelector_new]
    /\ call = [op |-> "new"]

MergeRest == <<outline, contours, current, cur_pos, coloured, corners, wind, tri, shot,
               ras, mt, col>>

SelfAddTrueDistance ==
    /\ \E dist \in MergeDists :
          sel' = add_edge_true_distance(sel, MergeEdge, dist, F32_HALF)
    /\ call' = [op |-> "add_edge_true_distance"]
    /\ UNCHANGED <<query, MergeRest>>

SelfAddPerpDistance ==
    /\ \E dist \in MergePerpDists : sel' = add_edge_perp_distance(sel, dist)
    /\ call' = [op |-> "add_edge_perp_distance"]
    /\ UNCHANGED <<query, MergeRest>>

OtherAddTrueDistance ==
    /\ \E dist \in MergeDists :
          query' = [query EXCEPT
                      !.other = add_edge_true_distance(query.other, OtherEdge, dist, F32_HALF)]
    /\ call' = [op |-> "add_edge_true_distance"]
    /\ UNCHANGED <<sel, MergeRest>>

OtherAddPerpDistance ==
    /\ \E dist \in MergePerpDists :
          query' = [query EXCEPT !.other = add_edge_perp_distance(query.other, dist)]
    /\ call' = [op |-> "add_edge_perp_distance"]
    /\ UNCHANGED <<sel, MergeRest>>

\* self.merge(&other); the log keeps what other.merge(&self) gives on the same
\* two selectors
Merge ==
    /\ sel' = merge(sel, query.other)
    /\ call' = [op |-> "merge", swapped |-> merge(query.other, sel)]
    /\ UNCHANGED <<query, MergeRest>>

\* self.merge(&self)
MergeSelf ==
    /\ sel' = merge(sel, sel)
    /\ call' = [op |-> "merge_self", changed |-> merge(sel, sel) # sel]
    /\ UNCHANGED <<query, MergeRest>>

NextMerge ==
    \/ SelfAddTrueDistance
    \/ SelfAddPerpDistance
    \/ OtherAddTrueDistance
    \/ OtherAddPerpDistance
    \/ Merge
    \/ MergeSelf

SpecMerge == InitMerge /\ [][NextMerge]_vars

\* min_negative_perp_dist <= 0 <= min_positive_perp_dist
PerpSigns(s) ==
    fle(s.min_negative_perp_dist, FZero(0)) /\ fle(FZero(0), s.min_positive_perp_dist)

\* from selector s to selector n: min_negative_perp_dist is not decreased,
\* min_positive_perp_dist is not increased, |min_true_distance.dist| is not
\* increased
PerpMonotone(s, n) ==
    /\ fle(s.min_negative_perp_dist, n.min_negative_perp_dist)
    /\ fle(n.min_positive_perp_dist, s.min_positive_perp_dist)
    /\ fle(fabs(n.min_true_distance.dist), fabs(s.min_true_distance.dist))

\* C28: every PerpEdgeSelector reached from new by add_edge_true_distance,
\* add_edge_perp_distance and merge has min_negative_perp_dist <= 0 <=
\* min_positive_perp_dist, and no operation decreases min_negative_perp_dist,
\* increases min_positive_perp_dist or increases |min_true_distance.dist|.
C28_PerpExtremaMonotone ==
    /\ PerpSigns(sel) /\ PerpSigns(query.other)
    /\ [][/\ PerpSigns(sel') /\ PerpSigns(query'.other)
          /\ PerpMonotone(sel, sel')
          /\ PerpMonotone(query.other, query'.other)]_vars

\* a merge has brought a closer true distance and closer perpendicular
\* distances of both signs into self
C28_Witness ==
    /\ call.op = "merge"
    /\ sel.min_true_distance = query.other.min_true_distance
    /\ sel.min_true_distance.dist = FInt(-1)
    /\ sel.near_edge = Some(OtherEdge)
    /\ sel.min_negative_perp_dist = FInt(-1)
    /\ sel.min_positive_perp_dist = FInt(1)

\* C29: merge does not depend on the order: merging other into self and self
\* into other give the same min_true_distance (dist with its sign, and dot),
\* the same min_negative_perp_dist and the same min_positive_perp_dist, and
\* merging a selector with itself changes nothing.
C29_MergeCommutes ==
    /\ call.op = "merge" =>
          /\ sel.min_true_distance = call.swapped.min_true_distance
          /\ sel.min_negative_perp_dist = call.swapped.min_negative_perp_dist
          /\ sel.min_positive_perp_dist = call.swapped.min_positive_perp_dist
    /\ call.op = "merge_self" => ~call.changed

\* C30: for width >= 1 and height >= 1 every pixel that generate_mtsdf
\* writes, in the distance loop and in the overlay loop, for any edge sample
\* also outside the bounding box, is (offset_x + x, offset_y + y) with
\* 0 <= x < width and 0 <= y < height.
C30_WritesInsideGlyph ==
    (ras.on /\ ras.put.some) =>
        /\ ras.put.at[1] \in 0..(ras.width - 1)
        /\ ras.put.at[2] \in 0..(ras.height - 1)
        /\ ras.img[<<ras.off[1] + ras.put.at[1], ras.off[2] + ras.put.at[2]>>][4] = F32_ONE

\* the overlay loop has written the pixel of an edge sample that lies to the
\* right of the bounding box, in the last column
C30_Witness ==
    /\ ras.on /\ ras.put.some /\ ras.put.loop = "overlay"
    /\ flt(FInt(ras.self.bounds.x_max), ras.put.p[1])
    /\ ras.width >= 2
    /\ ras.put.at[1] = ras.width - 1

=============================================================================
